---- MODULE Spec2Model ----
(***************************************************************************)
(* Model of the CSP policy core of DavBfr/csp: the directive model         *)
(* (parseCSPDirectives / reconstructCSP), the hash merges (UpdateCSP,      *)
(* MergeStrictCSPWithHashes), the domain merge (AddExternalResourcesToCSP) *)
(* and the explicit modifications (ApplyCSPModifications).                 *)
(*                                                                         *)
(* A Go string is a sequence of lexemes.  A lexeme is either one of the    *)
(* single characters the code inspects (";", space, tab, newline) or an    *)
(* indivisible run of other characters ("script-src", "'self'", "data:").  *)
(* The Go string is the concatenation of the lexemes.  The lexemes used    *)
(* are chosen so that the patterns the code searches for ("data:",         *)
(* "'unsafe-hashes'") occur in the concatenation exactly where they occur  *)
(* as lexemes, so a search over lexemes is the search over bytes.          *)
(***************************************************************************)
EXTENDS Integers, Sequences, FiniteSets, TLC

VARIABLES cspHeader, call, updatedCSP

vars == <<cspHeader, call, updatedCSP>>

(***************************************************************************)
(* strings                                                                 *)
(***************************************************************************)

\* unicode.IsSpace on the characters of the model's alphabet
IsSpace(c) == c \in {" ", "\t", "\n"}

\* strings.TrimLeft of white space
RECURSIVE TrimLeft(_)
TrimLeft(s) ==
  IF s = <<>> THEN <<>>
  ELSE IF IsSpace(Head(s)) THEN TrimLeft(Tail(s)) ELSE s

\* strings.TrimRight of white space
RECURSIVE TrimRight(_)
TrimRight(s) ==
  IF s = <<>> THEN <<>>
  ELSE IF IsSpace(s[Len(s)]) THEN TrimRight(SubSeq(s, 1, Len(s) - 1)) ELSE s

\* strings.TrimSpace
TrimSpace(s) == TrimRight(TrimLeft(s))

\* strings.IndexAny(s, chars): the 0-based index of the first character of s
\* that is in chars, -1 when there is none
IndexAny(s, chars) ==
  IF \E i \in 1..Len(s) : s[i] \in chars
  THEN (CHOOSE i \in 1..Len(s) :
          /\ s[i] \in chars
          /\ \A j \in 1..(i - 1) : s[j] \notin chars) - 1
  ELSE -1

\* strings.Split(s, sep) for a one-character separator
RECURSIVE Split(_, _)
Split(s, sep) ==
  LET idx == IndexAny(s, {sep})
  IN  IF idx = -1 THEN <<s>>
      ELSE <<SubSeq(s, 1, idx)>> \o Split(SubSeq(s, idx + 2, Len(s)), sep)

\* strings.Fields: the maximal runs of non-space characters
RECURSIVE Fields(_)
Fields(s) ==
  LET t == TrimLeft(s)
      idx == IndexAny(t, {" ", "\t", "\n"})
  IN  IF t = <<>> THEN <<>>
      ELSE IF idx = -1 THEN <<t>>
      ELSE <<SubSeq(t, 1, idx)>> \o Fields(SubSeq(t, idx + 2, Len(t)))

\* strings.Join(elems, sep)
RECURSIVE Join(_, _)
Join(elems, sep) ==
  IF elems = <<>> THEN <<>>
  ELSE IF Len(elems) = 1 THEN elems[1]
  ELSE elems[1] \o sep \o Join(Tail(elems), sep)

\* strings.Contains(s, substr)
Contains(s, substr) ==
  \E i \in 1..(Len(s) - Len(substr) + 1) :
     SubSeq(s, i, i + Len(substr) - 1) = substr

\* the elements of a sequence
Range(s) == { s[i] : i \in 1..Len(s) }

\* the sequences over S of length at most n
SeqUpTo(S, n) == UNION { [1..k -> S] : k \in 0..n }

(***************************************************************************)
(* Go maps: a map[string]T is a function whose domain is the key set       *)
(***************************************************************************)

EmptyMap == [k \in {} |-> <<>>]

\* _, ok := m[k]
Has(m, k) == k \in DOMAIN m

\* m[k], the zero value "" for a missing key
Get(m, k) == IF k \in DOMAIN m THEN m[k] ELSE <<>>

\* m[k] = v
Put(m, k, v) == [x \in (DOMAIN m) \cup {k} |-> IF x = k THEN v ELSE m[x]]

\* delete(m, k)
Delete(m, k) == [x \in (DOMAIN m) \ {k} |-> m[x]]

(***************************************************************************)
(* the directive model                                                     *)
(***************************************************************************)

\* a loop body that keeps the value of the first occurrence of a name
ParsePart_FirstWins(directives, rawPart) ==
  LET part == TrimSpace(rawPart)
      spaceIdx == IndexAny(part, {" ", "\t"})
      name == IF spaceIdx = -1 THEN part ELSE SubSeq(part, 1, spaceIdx)
  IN  IF part = <<>> \/ Has(directives, name) THEN directives
      ELSE IF spaceIdx = -1 THEN Put(directives, part, <<>>)
      ELSE Put(directives, name, TrimSpace(SubSeq(part, spaceIdx + 2, Len(part))))

\* src/parser.go:401-417, the body of the loop over the parts
ParsePart(directives, rawPart) ==
  LET part == TrimSpace(rawPart)
      spaceIdx == IndexAny(part, {" ", "\t"})
  IN  IF part = <<>> THEN directives
      ELSE IF spaceIdx = -1 THEN Put(directives, part, <<>>)
      ELSE Put(directives,
               SubSeq(part, 1, spaceIdx),
               TrimSpace(SubSeq(part, spaceIdx + 2, Len(part))))

RECURSIVE ParseParts(_, _)
ParseParts(directives, parts) ==
  IF parts = <<>> THEN directives
  ELSE ParseParts(ParsePart(directives, Head(parts)), Tail(parts))

\* parseCSPDirectives
parseCSPDirectives(header) == ParseParts(EmptyMap, Split(header, ";"))

\* the preferred order of reconstructCSP
orderedDirectives ==
  << <<"default-src">>, <<"script-src">>, <<"style-src">>, <<"img-src">>,
     <<"font-src">>, <<"connect-src">>, <<"frame-src">>, <<"frame-ancestors">>,
     <<"object-src">>, <<"base-uri">>, <<"form-action">> >>

\* one rendered directive: the bare name for an empty value, else "name value"
RenderDirective(name, value) ==
  IF value = <<>> THEN name ELSE name \o <<" ">> \o value

\* the injective sequences that enumerate the finite set S: the orders in which
\* a Go range over a map with key set S may visit the keys
IterationOrders(S) ==
  { p \in [1..Cardinality(S) -> S] : \A i, j \in 1..Cardinality(S) : p[i] = p[j] => i = j }

\* the parts reconstructCSP emits for the directives of the preferred order
OrderedParts(directives) ==
  LET present == SelectSeq(orderedDirectives, LAMBDA n : Has(directives, n))
  IN  [i \in 1..Len(present) |-> RenderDirective(present[i], directives[present[i]])]

\* reconstructCSP without its second loop: the directives outside the preferred
\* order are forgotten
reconstructCSP_OrderedOnly(directives) ==
  { Join(OrderedParts(directives), <<";", " ">>) }

\* reconstructCSP with one loop over the map for all the directives
reconstructCSP_Unordered(directives) ==
  { Join([i \in 1..Len(p) |-> RenderDirective(p[i], directives[p[i]])], <<";", " ">>) :
      p \in IterationOrders(DOMAIN directives) }

\* reconstructCSP: the set of headers it may return, one per iteration order of
\* the range over the remaining directives
reconstructCSP(directives) ==
  LET remaining == (DOMAIN directives) \ Range(orderedDirectives)
  IN  { Join(OrderedParts(directives)
               \o [i \in 1..Len(p) |-> RenderDirective(p[i], directives[p[i]])],
             <<";", " ">>) : p \in IterationOrders(remaining) }

(***************************************************************************)
(* the hash merges                                                         *)
(***************************************************************************)

UnsafeHashes == <<"'unsafe-hashes'">>

\* UpdateScriptSrc that overwrites script-src with the hashes instead of appending
UpdateScriptSrc_Overwrite(directives, scriptHashes, hasEventHandlers) ==
  IF Len(scriptHashes) > 0
  THEN LET d1 == Put(directives, <<"script-src">>, Join(scriptHashes, <<" ">>))
       IN  IF hasEventHandlers /\ ~Contains(d1[<<"script-src">>], UnsafeHashes)
           THEN Put(d1, <<"script-src">>, d1[<<"script-src">>] \o <<" ">> \o UnsafeHashes)
           ELSE d1
  ELSE directives

\* src/parser.go:342-356, the script-src step of UpdateCSP
UpdateScriptSrc(directives, scriptHashes, hasEventHandlers) ==
  IF Len(scriptHashes) > 0
  THEN LET d1 == IF Has(directives, <<"script-src">>)
                 THEN Put(directives, <<"script-src">>,
                          directives[<<"script-src">>] \o <<" ">> \o Join(scriptHashes, <<" ">>))
                 ELSE Put(directives, <<"script-src">>, Join(scriptHashes, <<" ">>))
       IN  IF hasEventHandlers /\ ~Contains(d1[<<"script-src">>], UnsafeHashes)
           THEN Put(d1, <<"script-src">>, d1[<<"script-src">>] \o <<" ">> \o UnsafeHashes)
           ELSE d1
  ELSE directives

\* src/parser.go:359-368, the style-src step of UpdateCSP for <style> tags
UpdateStyleSrc(directives, styleTagHashes) ==
  IF Len(styleTagHashes) > 0
  THEN IF Has(directives, <<"style-src">>)
       THEN Put(directives, <<"style-src">>,
                directives[<<"style-src">>] \o <<" ">> \o Join(styleTagHashes, <<" ">>))
       ELSE Put(directives, <<"style-src">>, Join(styleTagHashes, <<" ">>))
  ELSE directives

\* UpdateStyleAttr that never looks for style-src-attr
UpdateStyleAttr_StyleSrcOnly(directives, styleAttrHashes) ==
  IF Len(styleAttrHashes) > 0
  THEN LET directiveName == <<"style-src">>
           d1 == IF Has(directives, directiveName)
                 THEN Put(directives, directiveName,
                          directives[directiveName] \o <<" ">> \o Join(styleAttrHashes, <<" ">>))
                 ELSE Put(directives, directiveName, Join(styleAttrHashes, <<" ">>))
       IN  IF ~Contains(d1[directiveName], UnsafeHashes)
           THEN Put(d1, directiveName, d1[directiveName] \o <<" ">> \o UnsafeHashes)
           ELSE d1
  ELSE directives

\* src/parser.go:371-388, the step of UpdateCSP for style attributes
UpdateStyleAttr(directives, styleAttrHashes) ==
  IF Len(styleAttrHashes) > 0
  THEN LET directiveName == IF Has(directives, <<"style-src-attr">>)
                            THEN <<"style-src-attr">> ELSE <<"style-src">>
           d1 == IF Has(directives, directiveName)
                 THEN Put(directives, directiveName,
                          directives[directiveName] \o <<" ">> \o Join(styleAttrHashes, <<" ">>))
                 ELSE Put(directives, directiveName, Join(styleAttrHashes, <<" ">>))
       IN  IF ~Contains(d1[directiveName], UnsafeHashes)
           THEN Put(d1, directiveName, d1[directiveName] \o <<" ">> \o UnsafeHashes)
           ELSE d1
  ELSE directives

\* UpdateCSP: the set of headers it may return
UpdateCSP(header, scriptHashes, styleTagHashes, styleAttrHashes, hasEventHandlers) ==
  reconstructCSP(
    UpdateStyleAttr(
      UpdateStyleSrc(
        UpdateScriptSrc(parseCSPDirectives(header), scriptHashes, hasEventHandlers),
        styleTagHashes),
      styleAttrHashes))

\* a + " " + b, or b alone when a is empty (the idiom of MergeStrictCSPWithHashes)
AppendSpaced(a, b) == IF a # <<>> THEN a \o <<" ">> \o b ELSE b

\* MergeScriptSrc without its guard: script-src is written back on every call
MergeScriptSrc_Unguarded(directives, scriptHashes, hasEventHandlers) ==
  LET s0 == Get(directives, <<"script-src">>)
      s1 == IF Len(scriptHashes) > 0
            THEN AppendSpaced(s0, Join(scriptHashes, <<" ">>)) ELSE s0
      s2 == IF hasEventHandlers /\ ~Contains(s1, UnsafeHashes)
            THEN AppendSpaced(s1, UnsafeHashes) ELSE s1
  IN  Put(directives, <<"script-src">>, s2)

\* src/parser_test.go:155-177, the script-src step of MergeStrictCSPWithHashes
MergeScriptSrc(directives, scriptHashes, hasEventHandlers) ==
  IF Len(scriptHashes) > 0 \/ hasEventHandlers
  THEN LET s0 == Get(directives, <<"script-src">>)
           s1 == IF Len(scriptHashes) > 0
                 THEN AppendSpaced(s0, Join(scriptHashes, <<" ">>)) ELSE s0
           s2 == IF hasEventHandlers /\ ~Contains(s1, UnsafeHashes)
                 THEN AppendSpaced(s1, UnsafeHashes) ELSE s1
       IN  Put(directives, <<"script-src">>, s2)
  ELSE directives

\* src/parser_test.go:180-211, the style-src step of MergeStrictCSPWithHashes
MergeStyleSrc(directives, styleTagHashes, styleAttrHashes) ==
  IF Len(styleTagHashes) > 0 \/ Len(styleAttrHashes) > 0
  THEN LET s0 == Get(directives, <<"style-src">>)
           s1 == IF Len(styleTagHashes) > 0
                 THEN AppendSpaced(s0, Join(styleTagHashes, <<" ">>)) ELSE s0
           s2 == IF Len(styleAttrHashes) > 0
                 THEN AppendSpaced(s1, Join(styleAttrHashes, <<" ">>)) ELSE s1
           s3 == IF Len(styleAttrHashes) > 0 /\ ~Contains(s2, UnsafeHashes)
                 THEN AppendSpaced(s2, UnsafeHashes) ELSE s2
       IN  Put(directives, <<"style-src">>, s3)
  ELSE directives

\* MergeStrictCSPWithHashes: the set of headers it may return
MergeStrictCSPWithHashes(strictCSP, scriptHashes, styleTagHashes, styleAttrHashes, hasEventHandlers) ==
  reconstructCSP(
    MergeStyleSrc(
      MergeScriptSrc(parseCSPDirectives(strictCSP), scriptHashes, hasEventHandlers),
      styleTagHashes, styleAttrHashes))

\* a filter that keeps the last occurrence of each string
RECURSIVE removeDuplicates_KeepsLast(_)
removeDuplicates_KeepsLast(items) ==
  IF items = <<>> THEN <<>>
  ELSE IF Head(items) \in Range(Tail(items)) THEN removeDuplicates_KeepsLast(Tail(items))
  ELSE <<Head(items)>> \o removeDuplicates_KeepsLast(Tail(items))

\* removeDuplicates (src/main.go): the first occurrences, in order
RECURSIVE removeDuplicates(_)
removeDuplicates(items) ==
  IF items = <<>> THEN <<>>
  ELSE LET init == removeDuplicates(SubSeq(items, 1, Len(items) - 1))
           item == items[Len(items)]
       IN  IF item \in Range(init) THEN init ELSE Append(init, item)

(***************************************************************************)
(* the strict template (src/parser_test.go:43-148)                         *)
(***************************************************************************)

\* the list fields of StrictCSPTemplate and the directive GenerateStrictCSP
\* emits for each, in the order of its if statements
StrictFields ==
  << [field |-> "DefaultSrc", name |-> <<"default-src">>],
     [field |-> "ScriptSrc", name |-> <<"script-src">>],
     [field |-> "StyleSrc", name |-> <<"style-src">>],
     [field |-> "ImgSrc", name |-> <<"img-src">>],
     [field |-> "FontSrc", name |-> <<"font-src">>],
     [field |-> "ConnectSrc", name |-> <<"connect-src">>],
     [field |-> "ManifestSrc", name |-> <<"manifest-src">>],
     [field |-> "WorkerSrc", name |-> <<"worker-src">>],
     [field |-> "FrameSrc", name |-> <<"frame-src">>],
     [field |-> "ObjectSrc", name |-> <<"object-src">>],
     [field |-> "MediaSrc", name |-> <<"media-src">>],
     [field |-> "BaseURI", name |-> <<"base-uri">>],
     [field |-> "FormAction", name |-> <<"form-action">>],
     [field |-> "FrameAncestors", name |-> <<"frame-ancestors">>] >>

\* the zero value of StrictCSPTemplate
ZeroTemplate ==
  [ DefaultSrc |-> <<>>, ScriptSrc |-> <<>>, StyleSrc |-> <<>>, ImgSrc |-> <<>>,
    FontSrc |-> <<>>, ConnectSrc |-> <<>>, ManifestSrc |-> <<>>, WorkerSrc |-> <<>>,
    FrameSrc |-> <<>>, ObjectSrc |-> <<>>, MediaSrc |-> <<>>, BaseURI |-> <<>>,
    FormAction |-> <<>>, FrameAncestors |-> <<>>, UpgradeInsecure |-> FALSE,
    RequireTrustedTypesFor |-> FALSE ]

\* GetDefaultStrictTemplate
GetDefaultStrictTemplate ==
  [ DefaultSrc |-> << <<"'none'">> >>, ScriptSrc |-> << <<"'self'">> >>,
    StyleSrc |-> << <<"'self'">> >>, ImgSrc |-> << <<"'self'">> >>,
    FontSrc |-> << <<"'self'">> >>, ConnectSrc |-> << <<"'self'">> >>,
    ManifestSrc |-> << <<"'self'">> >>, WorkerSrc |-> << <<"'self'">> >>,
    FrameSrc |-> << <<"'none'">> >>, ObjectSrc |-> << <<"'none'">> >>,
    MediaSrc |-> << <<"'self'">> >>, BaseURI |-> << <<"'self'">> >>,
    FormAction |-> << <<"'self'">> >>, FrameAncestors |-> << <<"'none'">> >>,
    UpgradeInsecure |-> TRUE, RequireTrustedTypesFor |-> FALSE ]

\* the parts GenerateStrictCSP appends for the list fields from the i-th on:
\* if len(field) > 0 { parts = append(parts, name+" "+strings.Join(field, " ")) }
RECURSIVE StrictParts(_, _)
StrictParts(template, i) ==
  IF i > Len(StrictFields) THEN <<>>
  ELSE (IF Len(template[StrictFields[i].field]) > 0
        THEN << StrictFields[i].name \o <<" ">>
                  \o Join(template[StrictFields[i].field], <<" ">>) >>
        ELSE <<>>)
       \o StrictParts(template, i + 1)

\* a generator without the tests of the lengths: every field gives a part
RECURSIVE StrictParts_EmptyFields(_, _)
StrictParts_EmptyFields(template, i) ==
  IF i > Len(StrictFields) THEN <<>>
  ELSE << StrictFields[i].name \o <<" ">>
            \o Join(template[StrictFields[i].field], <<" ">>) >>
       \o StrictParts_EmptyFields(template, i + 1)

\* the part for the RequireTrustedTypesFor field.  The field is set by main
\* (src/main.go:214) and tested in src/strict_test.go:187-221; the branch of
\* GenerateStrictCSP that reads it is not in the sources: it is taken to come
\* last, as the newest field, with the text the tests look for
RequireTrustedTypesPart(template) ==
  IF template.RequireTrustedTypesFor
  THEN << <<"require-trusted-types-for", " ", "'script'">> >>
  ELSE <<>>

GenerateStrictCSP_EmptyFields(template) ==
  Join(StrictParts_EmptyFields(template, 1)
         \o (IF template.UpgradeInsecure THEN << <<"upgrade-insecure-requests">> >>
             ELSE <<>>)
         \o RequireTrustedTypesPart(template),
       <<";", " ">>)

\* GenerateStrictCSP
GenerateStrictCSP(template) ==
  Join(StrictParts(template, 1)
         \o (IF template.UpgradeInsecure THEN << <<"upgrade-insecure-requests">> >>
             ELSE <<>>)
         \o RequireTrustedTypesPart(template),
       <<";", " ">>)

(***************************************************************************)
(* the resource catalog and the domain merge                               *)
(***************************************************************************)

\* the lexemes that occur in domains, in the byte order of the Go strings
LexemeOrder == << "https://a.example", "https://b.example", "https://c.example" >>

\* the position of a lexeme in LexemeOrder
LexemeRank(c) == CHOOSE i \in 1..Len(LexemeOrder) : LexemeOrder[i] = c

\* a < b for Go strings (the order sort.Strings uses)
RECURSIVE StringLess(_, _)
StringLess(a, b) ==
  IF b = <<>> THEN FALSE
  ELSE IF a = <<>> THEN TRUE
  ELSE IF Head(a) = Head(b) THEN StringLess(Tail(a), Tail(b))
  ELSE LexemeRank(Head(a)) < LexemeRank(Head(b))

\* sort.Strings of the keys of a set: the ascending enumeration of S
SortStrings(S) ==
  CHOOSE p \in [1..Cardinality(S) -> S] :
    \A i, j \in 1..Cardinality(S) : i < j => StringLess(p[i], p[j])

\* the first occurrences of the elements of vals that are not in seen, in order
RECURSIVE AppendUnseen(_, _)
AppendUnseen(result, vals) ==
  IF vals = <<>> THEN result
  ELSE AppendUnseen(IF Head(vals) \in Range(result) THEN result
                    ELSE Append(result, Head(vals)),
                    Tail(vals))

\* the list of the catalog that GetDomainsByType reads for a resource type
ResourcesOfType(er, resourceType) ==
  CASE resourceType = "script" -> er.Scripts
    [] resourceType = "stylesheet" -> er.Stylesheets
    [] resourceType = "image" -> er.Images
    [] resourceType = "font" -> er.Fonts
    [] resourceType = "frame" -> er.Frames
    [] resourceType = "other" -> er.Other
    [] OTHER -> <<>>

\* the six lists of the catalog, one after the other
AllResources(er) ==
  er.Scripts \o er.Stylesheets \o er.Images \o er.Fonts \o er.Frames \o er.Other

\* GetUniqueDomains without sort.Strings: the domains in the order of their
\* first occurrence in the lists
GetUniqueDomains_FirstSeen(er) ==
  LET resources == AllResources(er)
  IN  AppendUnseen(<<>>,
        SelectSeq([i \in 1..Len(resources) |-> resources[i].Domain],
                  LAMBDA d : d # <<>>))

\* ExternalResources.GetUniqueDomains
GetUniqueDomains(er) ==
  LET resources == AllResources(er)
      domainSet == { resources[i].Domain : i \in 1..Len(resources) } \ {<<>>}
  IN  SortStrings(domainSet)

\* GetDomainsByType without sort.Strings: the domains in the order of their first
\* occurrence in the list
GetDomainsByType_Unsorted(er, resourceType) ==
  LET resources == ResourcesOfType(er, resourceType)
  IN  AppendUnseen(<<>>,
        SelectSeq([i \in 1..Len(resources) |-> resources[i].Domain],
                  LAMBDA d : d # <<>>))

\* ExternalResources.GetDomainsByType
GetDomainsByType(er, resourceType) ==
  LET resources == ResourcesOfType(er, resourceType)
      domainSet == { resources[i].Domain : i \in 1..Len(resources) } \ {<<>>}
  IN  SortStrings(domainSet)

\* appendUniqueDomainsToString without its seen set
appendUniqueDomainsToString_NoSeen(existing, newDomains) ==
  Join((IF existing # <<>> THEN Fields(existing) ELSE <<>>) \o newDomains, <<" ">>)

\* appendUniqueDomainsToString
appendUniqueDomainsToString(existing, newDomains) ==
  Join(AppendUnseen(AppendUnseen(<<>>, IF existing # <<>> THEN Fields(existing) ELSE <<>>),
                    newDomains),
       <<" ">>)

DataScheme == <<"data:">>

\* resources.UsesDataURLs != nil && resources.UsesDataURLs[key]; a nil map reads
\* as an empty one
UsesDataURLs(er, key) == Has(er.UsesDataURLs, key) /\ er.UsesDataURLs[key]

\* src/detector.go:127-137 (img-src) and 140-150 (font-src): the data: step
AddDataScheme(directives, er, key, name) ==
  IF UsesDataURLs(er, key)
  THEN IF Has(directives, name)
       THEN IF ~Contains(directives[name], DataScheme)
            THEN Put(directives, name,
                     appendUniqueDomainsToString(directives[name], <<DataScheme>>))
            ELSE directives
       ELSE IF Has(directives, <<"default-src">>)
       THEN Put(directives, name,
                appendUniqueDomainsToString(directives[<<"default-src">>], <<DataScheme>>))
       ELSE Put(directives, name, DataScheme)
  ELSE directives

\* src/detector.go:153-163 and its five copies up to line 223: the domains of
\* one resource type go into one directive
AddDomains(directives, er, resourceType, name) ==
  LET domains == GetDomainsByType(er, resourceType)
  IN  IF Len(domains) > 0
      THEN IF Has(directives, name)
           THEN Put(directives, name,
                    appendUniqueDomainsToString(directives[name], domains))
           ELSE IF Has(directives, <<"default-src">>)
           THEN Put(directives, name,
                    appendUniqueDomainsToString(directives[<<"default-src">>], domains))
           ELSE Put(directives, name, Join(domains, <<" ">>))
      ELSE directives

\* the directives of AddExternalResourcesToCSP after its two data: steps
AfterDataSchemes(directives, er) ==
  AddDataScheme(AddDataScheme(directives, er, "image", <<"img-src">>),
                er, "font", <<"font-src">>)

\* the directives of AddExternalResourcesToCSP before reconstructCSP
ExternalDirectives(directives, er) ==
  LET d0 == AfterDataSchemes(directives, er)
      d1 == AddDomains(d0, er, "script", <<"script-src">>)
      d2 == AddDomains(d1, er, "stylesheet", <<"style-src">>)
      d3 == AddDomains(d2, er, "image", <<"img-src">>)
      d4 == AddDomains(d3, er, "font", <<"font-src">>)
      d5 == AddDomains(d4, er, "frame", <<"frame-src">>)
  IN  AddDomains(d5, er, "other", <<"connect-src">>)

\* AddExternalResourcesToCSP: the set of headers it may return
AddExternalResourcesToCSP(header, er) ==
  reconstructCSP(ExternalDirectives(parseCSPDirectives(header), er))

\* the catalog that holds the resources found, each appended to the list of its
\* type in the order found (src/parser.go:160-321, src/main.go:281-292)
CatalogOf(found, usesDataURLs) ==
  [ Scripts      |-> SelectSeq(found, LAMBDA r : r.Type = "script"),
    Stylesheets  |-> SelectSeq(found, LAMBDA r : r.Type = "stylesheet"),
    Images       |-> SelectSeq(found, LAMBDA r : r.Type = "image"),
    Fonts        |-> SelectSeq(found, LAMBDA r : r.Type = "font"),
    Frames       |-> SelectSeq(found, LAMBDA r : r.Type = "frame"),
    Other        |-> SelectSeq(found, LAMBDA r : r.Type = "other"),
    UsesDataURLs |-> usesDataURLs ]

(***************************************************************************)
(* the explicit modifications.  ApplyCSPModifications is called by main    *)
(* (src/main.go:428) and by TestApplyCSPModifications, its body is not in  *)
(* the sources: it is modelled from the specification, section 4.4.        *)
(***************************************************************************)

\* s without the elements equal to x
Without(s, x) == SelectSeq(s, LAMBDA t : t # x)

\* an add that appends the token whether the directive has it or not
ApplyModification_AlwaysAppends(directives, mod) ==
  LET tokens == Fields(Get(directives, mod.Directive))
  IN  IF mod.Action = "add"
      THEN Put(directives, mod.Directive, Join(Append(tokens, mod.Value), <<" ">>))
      ELSE IF Has(directives, mod.Directive) /\ mod.Value \in Range(tokens)
           THEN IF Without(tokens, mod.Value) = <<>>
                THEN Delete(directives, mod.Directive)
                ELSE Put(directives, mod.Directive,
                         Join(Without(tokens, mod.Value), <<" ">>))
           ELSE directives

\* a remove that leaves the directive in place, bare, when its last token goes
ApplyModification_KeepsBare(directives, mod) ==
  LET tokens == Fields(Get(directives, mod.Directive))
  IN  IF mod.Action = "add"
      THEN IF mod.Value \in Range(tokens) THEN directives
           ELSE Put(directives, mod.Directive, Join(Append(tokens, mod.Value), <<" ">>))
      ELSE IF Has(directives, mod.Directive) /\ mod.Value \in Range(tokens)
           THEN Put(directives, mod.Directive, Join(Without(tokens, mod.Value), <<" ">>))
           ELSE directives

\* one modification: add appends the token unless the directive has it; remove
\* takes the token out if the directive has it, and the directive with it when
\* no token is left
ApplyModification(directives, mod) ==
  LET tokens == Fields(Get(directives, mod.Directive))
  IN  IF mod.Action = "add"
      THEN IF mod.Value \in Range(tokens) THEN directives
           ELSE Put(directives, mod.Directive, Join(Append(tokens, mod.Value), <<" ">>))
      ELSE IF Has(directives, mod.Directive) /\ mod.Value \in Range(tokens)
           THEN IF Without(tokens, mod.Value) = <<>>
                THEN Delete(directives, mod.Directive)
                ELSE Put(directives, mod.Directive,
                         Join(Without(tokens, mod.Value), <<" ">>))
           ELSE directives

\* directiveFlag.Set (src/main.go:40-47): the flag appends its modification,
\* with the value given, to the list all the flags share
directiveFlagSet(modifications, df, value) ==
  Append(modifications,
         [Action |-> df.action, Directive |-> df.directive, Value |-> value])

\* flag.Parse (src/main.go:149) calls Set of each flag of the command line, in
\* the order of the command line
RECURSIVE ParseFlags(_, _)
ParseFlags(modifications, args) ==
  IF args = <<>> THEN modifications
  ELSE ParseFlags(directiveFlagSet(modifications, Head(args).flag, Head(args).value),
                  Tail(args))

\* the modifications applied from the last of the list to the first
RECURSIVE ModifiedDirectives_Reversed(_, _)
ModifiedDirectives_Reversed(directives, modifications) ==
  IF modifications = <<>> THEN directives
  ELSE ApplyModification(
         ModifiedDirectives_Reversed(directives, Tail(modifications)),
         Head(modifications))

\* the modifications applied one after the other, in the order of the list
RECURSIVE ModifiedDirectives(_, _)
ModifiedDirectives(directives, modifications) ==
  IF modifications = <<>> THEN directives
  ELSE ModifiedDirectives(ApplyModification(directives, Head(modifications)),
                          Tail(modifications))

\* ApplyCSPModifications: the set of headers it may return
ApplyCSPModifications(header, modifications) ==
  reconstructCSP(ModifiedDirectives(parseCSPDirectives(header), modifications))

(***************************************************************************)
(* the validator (src/validator.go)                                        *)
(***************************************************************************)

\* a ValidationWarning; Message and Fix are strings like the headers are
Warning(message, fix) == [Severity |-> "warning", Message |-> message, Fix |-> fix]

\* the sequences a followed by b, for a in A and b in B
Concats(A, B) == { a \o b : a \in A, b \in B }

\* the warnings of the loop body of checkUnsafeInlineWithHashes for a directive
UnsafeInlineWithHashes(directives, directive) ==
  LET value == Get(directives, directive)
      hasUnsafeInline == Contains(value, <<"'unsafe-inline'">>)
      hasHashes == \/ Contains(value, <<"'sha256-">>)
                   \/ Contains(value, <<"'sha384-">>)
                   \/ Contains(value, <<"'sha512-">>)
  IN  IF Has(directives, directive) /\ hasUnsafeInline /\ hasHashes
      THEN << Warning(directive \o <<" contains both 'unsafe-inline' and hash values">>,
                      <<"Remove 'unsafe-inline' from ">> \o directive
                        \o <<" - hashes are ignored when 'unsafe-inline' is present">>) >>
      ELSE <<>>

\* checkUnsafeInlineWithHashes: script-src, then style-src
checkUnsafeInlineWithHashes(directives) ==
  { UnsafeInlineWithHashes(directives, <<"script-src">>)
      \o UnsafeInlineWithHashes(directives, <<"style-src">>) }

\* checkUnsafeEval
checkUnsafeEval(directives) ==
  { IF /\ Has(directives, <<"script-src">>)
       /\ Contains(directives[<<"script-src">>], <<"'unsafe-eval'">>)
    THEN << Warning(<<"script-src contains 'unsafe-eval' which allows dangerous eval() usage">>,
                    <<"Remove 'unsafe-eval' if possible and refactor code to avoid eval(), Function(), setTimeout(string), etc.">>) >>
    ELSE <<>> }

\* checkMissingDefaultSrc
checkMissingDefaultSrc(directives) ==
  { IF ~Has(directives, <<"default-src">>)
    THEN << Warning(<<"Missing 'default-src' directive">>,
                    <<"Add 'default-src' as a fallback for other directives (recommended: 'default-src 'self'')">>) >>
    ELSE <<>> }

\* the directives checkOverlyPermissive looks at
permissiveDirectivesToCheck ==
  { <<"default-src">>, <<"script-src">>, <<"style-src">>, <<"img-src">>,
    <<"connect-src">> }

\* the wildcard warning of a directive
WildcardWarning(name) ==
  Warning(name \o <<" contains wildcard '*' which allows resources from any origin">>,
          <<"Restrict ">> \o name \o <<" to specific domains or use 'self'">>)

\* the warnings of the loop body of checkOverlyPermissive for a directive that
\* the header has
OverlyPermissive(directives, directive) ==
  LET value == directives[directive]
  IN  (IF Contains(value, <<"*">>) /\ ~Contains(value, <<"https://", "*">>)
       THEN << WildcardWarning(directive) >> ELSE <<>>)
      \o
      (IF directive = <<"script-src">> /\ Contains(value, <<"data:">>)
       THEN << Warning(<<"script-src allows 'data:' URIs which can be exploited">>,
                       <<"Remove 'data:' from script-src if not absolutely necessary">>) >>
       ELSE <<>>)

\* the warnings of checkOverlyPermissive for the directives in the order p
RECURSIVE OverlyPermissiveInOrder(_, _)
OverlyPermissiveInOrder(directives, p) ==
  IF p = <<>> THEN <<>>
  ELSE OverlyPermissive(directives, Head(p)) \o OverlyPermissiveInOrder(directives, Tail(p))

\* checkOverlyPermissive: the range over the map of the directives to check
\* visits them in any order; those the header does not have add nothing
checkOverlyPermissive(directives) ==
  { OverlyPermissiveInOrder(directives, p) :
      p \in IterationOrders(permissiveDirectivesToCheck \cap DOMAIN directives) }

\* the deprecated directives and the fix suggested for each
deprecated ==
  [ d \in { <<"block-all-mixed-content">>, <<"plugin-types">>, <<"referrer">> } |->
      IF d = <<"block-all-mixed-content">>
      THEN <<"Use 'upgrade-insecure-requests' instead, or handle via HTTPS">>
      ELSE IF d = <<"plugin-types">>
      THEN <<"Deprecated - plugins are no longer supported in modern browsers">>
      ELSE <<"Use the Referrer-Policy header instead">> ]

\* the warning of the loop body of checkDeprecatedDirectives
Deprecated(directives, directive) ==
  << Warning(<<"'">> \o directive \o <<"' is deprecated">>, deprecated[directive]) >>

\* the warnings of checkDeprecatedDirectives for the directives in the order p
RECURSIVE DeprecatedInOrder(_, _)
DeprecatedInOrder(directives, p) ==
  IF p = <<>> THEN <<>>
  ELSE Deprecated(directives, Head(p)) \o DeprecatedInOrder(directives, Tail(p))

\* checkDeprecatedDirectives: a range over a map again
checkDeprecatedDirectives(directives) ==
  { DeprecatedInOrder(directives, p) :
      p \in IterationOrders((DOMAIN deprecated) \cap DOMAIN directives) }

\* the warning of checkConflictingDirectives for an -attr directive without the
\* directive it falls back to
Conflicting(directives, attr, fallback) ==
  IF Has(directives, attr) /\ ~Has(directives, fallback)
  THEN << Warning(<<"'">> \o attr \o <<"' is defined but '">> \o fallback \o <<"' is not">>,
                  <<"Consider adding '">> \o fallback
                    \o <<"' as it acts as fallback for '">> \o attr \o <<"'">>) >>
  ELSE <<>>

\* checkConflictingDirectives
checkConflictingDirectives(directives) ==
  { Conflicting(directives, <<"style-src-attr">>, <<"style-src">>)
      \o Conflicting(directives, <<"script-src-attr">>, <<"script-src">>) }

\* the result for the empty header
EmptyHeaderResult ==
  [ Valid |-> FALSE,
    Warnings |-> << [Severity |-> "error", Message |-> <<"CSP header is empty">>,
                     Fix |-> <<"Provide a valid CSP header string">>] >> ]

\* the warnings of the six checks, one after the other
AllChecks(directives) ==
  Concats(checkUnsafeInlineWithHashes(directives),
  Concats(checkUnsafeEval(directives),
  Concats(checkMissingDefaultSrc(directives),
  Concats(checkOverlyPermissive(directives),
  Concats(checkDeprecatedDirectives(directives),
          checkConflictingDirectives(directives))))))

\* a validator that stops at the first check that finds something
FirstFinding(checks) ==
  LET found == SelectSeq(checks, LAMBDA c : c # {<<>>})
  IN  IF found = <<>> THEN {<<>>} ELSE Head(found)

ValidateCSP_ShortCircuit(cspHeader_) ==
  LET directives == parseCSPDirectives(cspHeader_)
  IN  IF cspHeader_ = <<>> THEN { EmptyHeaderResult }
      ELSE { [Valid |-> TRUE, Warnings |-> w] :
               w \in FirstFinding(<< checkUnsafeInlineWithHashes(directives),
                                     checkUnsafeEval(directives),
                                     checkMissingDefaultSrc(directives),
                                     checkOverlyPermissive(directives),
                                     checkDeprecatedDirectives(directives),
                                     checkConflictingDirectives(directives) >>) }

\* a validator that takes a header without directives for an empty one
ValidateCSP_EmptyWhenNoDirectives(cspHeader_) ==
  LET directives == parseCSPDirectives(cspHeader_)
  IN  IF directives = EmptyMap THEN { EmptyHeaderResult }
      ELSE { [Valid |-> TRUE, Warnings |-> w] : w \in AllChecks(directives) }

\* ValidateCSP: the set of results it may return, one per order of the ranges
\* over the maps
ValidateCSP(cspHeader_) ==
  LET directives == parseCSPDirectives(cspHeader_)
  IN  IF cspHeader_ = <<>> THEN { EmptyHeaderResult }
      ELSE { [Valid |-> TRUE, Warnings |-> w] : w \in AllChecks(directives) }

(***************************************************************************)
(* the domain extractor (src/detector.go:89-120).  A URL is a string whose *)
(* lexemes are the delimiters ":", "/", "?", "#", "@" and the runs between *)
(* them.                                                                   *)
(***************************************************************************)

\* strings.HasPrefix
HasPrefix(str, prefix) ==
  Len(str) >= Len(prefix) /\ SubSeq(str, 1, Len(prefix)) = prefix

\* strings.Index and strings.LastIndex of a delimiter, Go's 0-based, -1 if none
Index(str, c) ==
  IF \E i \in 1..Len(str) : str[i] = c
  THEN (CHOOSE i \in 1..Len(str) : str[i] = c /\ \A j \in 1..(i - 1) : str[j] # c) - 1
  ELSE -1

LastIndex(str, c) ==
  IF \E i \in 1..Len(str) : str[i] = c
  THEN (CHOOSE i \in 1..Len(str) : str[i] = c /\ \A j \in (i + 1)..Len(str) : str[j] # c) - 1
  ELSE -1

\* the runs that hold an ASCII control byte, a malformed percent escape, a byte
\* that a host may not hold, and the runs of digits
ControlRuns == { "\n" }
BadEscapeRuns == { "%zz" }
BadHostRuns == { " " }
DigitRuns == { "8080" }

\* net/url validOptionalPort: empty, or ":" and digits only
validOptionalPort(port) ==
  \/ port = <<>>
  \/ /\ port[1] = ":"
     /\ \A i \in 2..Len(port) : port[i] \in DigitRuns

\* net/url parseHost, without the bracketed IP literals: the port after the
\* last colon is checked, then the host is unescaped
parseHost(host) ==
  LET i == LastIndex(host, ":")
  IN  IF i # -1 /\ ~validOptionalPort(SubSeq(host, i + 1, Len(host)))
      THEN [err |-> TRUE, Host |-> <<>>]
      ELSE IF \E k \in 1..Len(host) : host[k] \in BadEscapeRuns \cup BadHostRuns
      THEN [err |-> TRUE, Host |-> <<>>]
      ELSE [err |-> FALSE, Host |-> host]

\* net/url parseAuthority: the user information ends at the last "@"
parseAuthority(authority) ==
  LET i == LastIndex(authority, "@")
      userinfo == SubSeq(authority, 1, i)
      parsed == parseHost(SubSeq(authority, i + 2, Len(authority)))
  IN  IF parsed.err THEN parsed
      ELSE IF i >= 0 /\ \E k \in 1..Len(userinfo) :
                           userinfo[k] \in BadEscapeRuns \cup BadHostRuns
      THEN [err |-> TRUE, Host |-> <<>>]
      ELSE parsed

\* url.Parse of a URL that starts with "http://" or "https://": the fragment is
\* cut off at the first "#", the rest may hold no control byte, the query is cut
\* off at the first "?", the authority runs to the next "/", and host, path
\* and fragment are unescaped
urlParse(rawURL) ==
  LET f == Index(rawURL, "#")
      noFrag == IF f = -1 THEN rawURL ELSE SubSeq(rawURL, 1, f)
      frag == IF f = -1 THEN <<>> ELSE SubSeq(rawURL, f + 2, Len(rawURL))
      scheme == noFrag[1]
      afterScheme == SubSeq(noFrag, 3, Len(noFrag))
      q == Index(afterScheme, "?")
      rest == IF q = -1 THEN afterScheme ELSE SubSeq(afterScheme, 1, q)
      afterSlashes == SubSeq(rest, 3, Len(rest))
      p == Index(afterSlashes, "/")
      authority == IF p = -1 THEN afterSlashes ELSE SubSeq(afterSlashes, 1, p)
      path == IF p = -1 THEN <<>> ELSE SubSeq(afterSlashes, p + 1, Len(afterSlashes))
      parsed == parseAuthority(authority)
      failed == [err |-> TRUE, Scheme |-> <<>>, Host |-> <<>>, Path |-> <<>>]
  IN  IF \E k \in 1..Len(noFrag) : noFrag[k] \in ControlRuns THEN failed
      ELSE IF parsed.err THEN failed
      ELSE IF \E k \in 1..Len(path) : path[k] \in BadEscapeRuns THEN failed
      ELSE IF \E k \in 1..Len(frag) : frag[k] \in BadEscapeRuns THEN failed
      ELSE [err |-> FALSE, Scheme |-> <<scheme>>, Host |-> parsed.Host, Path |-> path]

\* an extractor that keeps the path of the URL
ExtractDomain_WithPath(rawURL) ==
  IF HasPrefix(rawURL, <<"data", ":">>) THEN <<>>
  ELSE IF /\ ~HasPrefix(rawURL, <<"http", ":", "/", "/">>)
          /\ ~HasPrefix(rawURL, <<"https", ":", "/", "/">>)
          /\ ~HasPrefix(rawURL, <<"/", "/">>)
  THEN <<>>
  ELSE LET absolute == IF HasPrefix(rawURL, <<"/", "/">>)
                       THEN <<"https", ":">> \o rawURL ELSE rawURL
           u == urlParse(absolute)
       IN  IF u.err THEN <<>>
           ELSE IF u.Host = <<>> THEN <<>>
           ELSE u.Scheme \o <<":", "/", "/">> \o u.Host \o u.Path

\* ExtractDomain
ExtractDomain(rawURL) ==
  IF HasPrefix(rawURL, <<"data", ":">>) THEN <<>>
  ELSE IF /\ ~HasPrefix(rawURL, <<"http", ":", "/", "/">>)
          /\ ~HasPrefix(rawURL, <<"https", ":", "/", "/">>)
          /\ ~HasPrefix(rawURL, <<"/", "/">>)
  THEN <<>>
  ELSE LET absolute == IF HasPrefix(rawURL, <<"/", "/">>)
                       THEN <<"https", ":">> \o rawURL ELSE rawURL
           u == urlParse(absolute)
       IN  IF u.err THEN <<>>
           ELSE IF u.Host = <<>> THEN <<>>
           ELSE u.Scheme \o <<":", "/", "/">> \o u.Host

(***************************************************************************)
(* the heuristics (src/unnamed/part_004).  The URLs are strings whose      *)
(* lexemes are the delimiters of the URL, "-", "_", "@" and the runs        *)
(* between them, cut so that every pattern of the rules is a sequence of    *)
(* lexemes.                                                                 *)
(***************************************************************************)

\* strings.ToLower on a run: the runs of the URLs that hold upper-case
\* letters, each with its lower-case form; the other runs hold none
ToLowerRun(c) ==
  CASE c = "Bootstrap" -> "bootstrap"
    [] c = "CDN.Example.com" -> "cdn.example.com"
    [] c = "HTTPS" -> "https"
    [] c = "family=Roboto" -> "family=roboto"
    [] c = "family=Open+Sans" -> "family=open+sans"
    [] OTHER -> c

ToLower(str) == [i \in 1..Len(str) |-> ToLowerRun(str[i])]

\* a HeuristicResource whose source is the URL inferred
Heuristic_SourceIsInferred(url, type, confidence, reason, resource, sourceType) ==
  [ URL |-> url, Type |-> type, Confidence |-> confidence, Reason |-> reason,
    SourceURL |-> url, SourceType |-> sourceType ]

\* a HeuristicResource
Heuristic(url, type, confidence, reason, resource, sourceType) ==
  [ URL |-> url, Type |-> type, Confidence |-> confidence, Reason |-> reason,
    SourceURL |-> resource.URL, SourceType |-> sourceType ]

\* if !seen[key] { inferred = append(inferred, h); seen[key] = true }
Emit(st, key, h) ==
  IF key \in st.seen THEN st
  ELSE [inferred |-> Append(st.inferred, h), seen |-> st.seen \cup {key}]

\* the first pattern of the list that str contains, 0 if it contains none
FirstMatch(patterns, str) ==
  IF \E i \in 1..Len(patterns) : Contains(str, patterns[i])
  THEN CHOOSE i \in 1..Len(patterns) :
         /\ Contains(str, patterns[i])
         /\ \A j \in 1..(i - 1) : ~Contains(str, patterns[j])
  ELSE 0

GstaticDomain == <<"https", ":", "/", "/", "font", "s.gstatic.com">>

iconFontPatterns ==
  << <<"font", "awesome">>, <<"font", "-", "awesome">>, <<"material", "-", "icons">>,
     <<"icomoon">>, <<"glyphicons">> >>

cssFrameworkPatterns == << <<"bootstrap">>, <<"foundation">>, <<"bulma">>, <<"tailwind">> >>

cssCdnPatterns ==
  << <<"cdn.jsdelivr.net">>, <<"unpkg.com">>, <<"cdnjs.", "cloudflare", ".com">> >>

\* the rules of inferFromStylesheet: the state of inferred and seen after the five rules,
\* each applied to the state the rule before it left
inferFromStylesheetRules(resource, urlStr, domain, st) ==
  LET icon == FirstMatch(iconFontPatterns, urlStr)
      framework == FirstMatch(cssFrameworkPatterns, urlStr)
      rule1(s) == IF Contains(urlStr, <<"font">>)
                  THEN Emit(s, domain \o <<"-font-inference">>,
                            Heuristic(domain, "font", "high",
                                      <<"Stylesheet name contains 'font' keyword">>,
                                      resource, "stylesheet"))
                  ELSE s
      rule2(s) == IF Contains(domain, <<"font", "s.googleapis.com">>)
                  THEN Emit(s, GstaticDomain,
                            Heuristic(GstaticDomain, "font", "high",
                                      <<"Google Fonts CSS always loads from fonts.gstatic.com">>,
                                      resource, "stylesheet"))
                  ELSE s
      rule3(s) == IF icon # 0
                  THEN Emit(s, domain,
                            Heuristic(domain, "font", "high",
                                      <<"Icon font library detected (">>
                                        \o iconFontPatterns[icon] \o <<")">>,
                                      resource, "stylesheet"))
                  ELSE s
      rule4(s) == IF framework # 0
                  THEN Emit(s, domain \o <<"-fonts">>,
                            Heuristic(domain, "font", "medium",
                                      <<"CSS framework may include custom fonts (">>
                                        \o cssFrameworkPatterns[framework] \o <<")">>,
                                      resource, "stylesheet"))
                  ELSE s
      rule5(s) == IF FirstMatch(cssCdnPatterns, domain) # 0
                  THEN Emit(s, domain \o <<"-connect">>,
                            Heuristic(domain, "connect", "medium",
                                      <<"CDN may dynamically load additional resources">>,
                                      resource, "stylesheet"))
                  ELSE s
  IN  { rule5(s4) : s4 \in
             { rule4(s3) : s3 \in
               { rule3(s2) : s2 \in
                 { rule2(s1) : s1 \in { rule1(st) } } } } }

GoogleAnalytics == <<"google", "-", "analytics", ".com">>

\* analyticsPatterns: the pattern and the domain to connect to
analyticsPatterns(domain) ==
  { [pattern |-> GoogleAnalytics, connectDomain |-> GoogleAnalytics],
    [pattern |-> <<"googletagmanager.com">>, connectDomain |-> GoogleAnalytics],
    [pattern |-> <<"analytics", ".js">>, connectDomain |-> domain],
    [pattern |-> <<"gtag", "/", "js">>, connectDomain |-> GoogleAnalytics],
    [pattern |-> <<"ga", ".js">>, connectDomain |-> GoogleAnalytics],
    [pattern |-> <<"analytics">>, connectDomain |-> domain] }

jsFrameworkPatterns ==
  << <<"react">>, <<"vue">>, <<"angular">>, <<"chunk">>, <<"bundle">> >>

\* a table of the processors that connects to the domain of the pattern itself
paymentPatterns_Unmapped ==
  { [pattern |-> <<"stripe.com">>, connectDomain |-> <<"stripe.com">>],
    [pattern |-> <<"paypal.com">>, connectDomain |-> <<"paypal.com">>],
    [pattern |-> <<"square.com">>, connectDomain |-> <<"square.com">>],
    [pattern |-> <<"braintree.com">>, connectDomain |-> <<"braintree.com">>] }

\* paymentPatterns: the pattern and the domain to connect to and to frame
paymentPatterns ==
  { [pattern |-> <<"stripe.com">>, connectDomain |-> <<"stripe.com">>],
    [pattern |-> <<"paypal.com">>, connectDomain |-> <<"paypal.com">>],
    [pattern |-> <<"square.com">>, connectDomain |-> <<"square.com">>],
    [pattern |-> <<"braintree.com">>, connectDomain |-> <<"braintreegateway.com">>] }

socialPatterns ==
  { [pattern |-> <<"facebook">>,
     domains |-> << <<"connect.", "facebook", ".net">>, <<"facebook", ".com">> >>],
    [pattern |-> <<"twitter">>,
     domains |-> << <<"platform.", "twitter", ".com">>, <<"twitter", ".com">> >>],
    [pattern |-> <<"linkedin">>,
     domains |-> << <<"platform.", "linkedin", ".com">>, <<"linkedin", ".com">> >>],
    [pattern |-> <<"instagram">>, domains |-> << <<"instagram", ".com">> >>],
    [pattern |-> <<"youtube">>, domains |-> << <<"youtube", ".com">> >>] }

\* a range over a map of patterns that breaks at the first pattern str
\* contains: the entries the loop may stop at, in some order of the iteration
MayMatchFirst(table, str) == { e \in table : Contains(str, e.pattern) }

\* the social rule for the domains of the entry matched
RECURSIVE EmitSocial(_, _, _)
EmitSocial(st, domains, resource) ==
  IF domains = <<>> THEN st
  ELSE LET next == Emit(st, Head(domains) \o <<"-social">>,
                        Heuristic(Head(domains), "connect", "high",
                                  <<"Social media widget needs API access">>,
                                  resource, "script"))
       IN  EmitSocial(next, Tail(domains), resource)

\* the rules of inferFromScript: the states of inferred and seen the five
\* rules may leave
inferFromScriptRules(resource, urlStr, domain, st) ==
  LET analytics == MayMatchFirst(analyticsPatterns(domain), urlStr)
      S1 == IF analytics = {} THEN {st}
            ELSE { Emit(st, e.connectDomain \o <<"-connect">>,
                        Heuristic(e.connectDomain, "connect", "high",
                                  <<"Analytics/tracking script needs to send data">>,
                                  resource, "script")) : e \in analytics }
      rule2(s) == IF FirstMatch(jsFrameworkPatterns, urlStr) # 0
                  THEN Emit(s, domain \o <<"-script-chunks">>,
                            Heuristic(domain, "script", "high",
                                      <<"JavaScript framework may lazy-load additional chunks">>,
                                      resource, "script"))
                  ELSE s
      payment == MayMatchFirst(paymentPatterns, domain)
      rule3(s) == IF payment = {} THEN {s}
                  ELSE UNION { { Emit(c, e.connectDomain \o <<"-frame">>,
                                      Heuristic(e.connectDomain, "frame", "high",
                                                <<"Payment processor may use iframes">>,
                                                resource, "script")) :
                                 c \in { Emit(s, e.connectDomain \o <<"-connect">>,
                                              Heuristic(e.connectDomain, "connect", "high",
                                                        <<"Payment processor needs API connection">>,
                                                        resource, "script")) } } :
                               e \in payment }
      social == MayMatchFirst(socialPatterns, domain)
      rule4(s) == IF social = {} THEN {s}
                  ELSE { EmitSocial(s, e.domains, resource) : e \in social }
      rule5(s) == IF Contains(urlStr, <<"polyfill">>)
                  THEN Emit(s, domain \o <<"-polyfill">>,
                            Heuristic(domain, "script", "medium",
                                      <<"Polyfill service may serve different files based on user agent">>,
                                      resource, "script"))
                  ELSE s
      S2 == { rule2(s) : s \in S1 }
      S3 == UNION { rule3(s) : s \in S2 }
      S4 == UNION { rule4(s) : s \in S3 }
  IN  { rule5(s) : s \in S4 }

imageCdnPatterns ==
  << <<"cloudinary">>, <<"imgix">>, <<"cloudflare">>, <<"fastly">>, <<"akamai">>,
     <<"cloudfront">> >>

\* the regular expression of the responsive images,
\* [-_@](xs|sm|md|lg|xl|[0-9]+x|2x|3x|retina)|@[0-9]x: one of the three
\* delimiters and a run that starts with one of the alternatives.  These are
\* the runs of the URLs that start with one: the alternatives themselves and
\* the runs that go on after digits and "x" or after the letters
ResponsiveRuns ==
  { "xs", "sm", "md", "lg", "xl", "2x", "3x", "5x", "10x", "1920x", "retina",
    "1920x1080.jpg", "2x.png", "small" }

responsivePatternsMatch(str) ==
  \E i \in 1..(Len(str) - 1) :
     str[i] \in {"-", "_", "@"} /\ str[i + 1] \in ResponsiveRuns

avatarPatterns ==
  << <<"/", "avatar">>, <<"/", "profile">>, <<"/", "user">>, <<"/", "photo">> >>

\* the rules of inferFromImage
inferFromImageRules(resource, urlStr, domain, st) ==
  LET rule1(s) == IF FirstMatch(imageCdnPatterns, domain) # 0
                  THEN Emit(s, domain \o <<"-img">>,
                            Heuristic(domain, "image", "high",
                                      <<"CDN domain likely serves multiple images">>,
                                      resource, "image"))
                  ELSE s
      rule2(s) == IF responsivePatternsMatch(urlStr)
                  THEN Emit(s, domain \o <<"-responsive">>,
                            Heuristic(domain, "image", "high",
                                      <<"Responsive image pattern detected, likely has multiple variants">>,
                                      resource, "image"))
                  ELSE s
      rule3(s) == IF FirstMatch(avatarPatterns, urlStr) # 0
                  THEN Emit(s, domain \o <<"-ugc">>,
                            Heuristic(domain, "image", "medium",
                                      <<"User-generated content pattern detected">>,
                                      resource, "image"))
                  ELSE s
  IN  { rule3(s2) : s2 \in { rule2(s1) : s1 \in { rule1(st) } } }

apiPatterns == << <<"api.">>, <<"/", "api", "/">>, <<"graphql">>, <<"rest">> >>

\* the rule of inferFromHTML, for the resources of any type
inferFromHTMLRules(resource, urlStr, domain, st) ==
  { IF FirstMatch(apiPatterns, urlStr) # 0 \/ Contains(domain, <<"api.">>)
        THEN Emit(st, domain \o <<"-api">>,
                  Heuristic(domain, "connect", "high", <<"API endpoint detected">>,
                            resource, resource.Type))
        ELSE st }

\* the four families: each looks at the lower-cased URL of the resource and at
\* the domain ExtractDomain gives for the URL, the first three only for
\* resources of their type
inferFromStylesheet(resource, st) ==
  IF resource.Type # "stylesheet" THEN {st}
  ELSE UNION { inferFromStylesheetRules(resource, urlStr, domain, st) :
                 urlStr \in { ToLower(resource.URL) },
                 domain \in { ExtractDomain(resource.URL) } }

inferFromScript(resource, st) ==
  IF resource.Type # "script" THEN {st}
  ELSE UNION { inferFromScriptRules(resource, urlStr, domain, st) :
                 urlStr \in { ToLower(resource.URL) },
                 domain \in { ExtractDomain(resource.URL) } }

inferFromImage(resource, st) ==
  IF resource.Type # "image" THEN {st}
  ELSE UNION { inferFromImageRules(resource, urlStr, domain, st) :
                 urlStr \in { ToLower(resource.URL) },
                 domain \in { ExtractDomain(resource.URL) } }

inferFromHTML(resource, st) ==
  UNION { inferFromHTMLRules(resource, urlStr, domain, st) :
            urlStr \in { ToLower(resource.URL) },
            domain \in { ExtractDomain(resource.URL) } }

\* the body of the loop of ApplyHeuristics: the four families on one resource
InferFromResource(resource, st) ==
  UNION { inferFromHTML(resource, s3) :
    s3 \in UNION { inferFromImage(resource, s2) :
      s2 \in UNION { inferFromScript(resource, s1) :
        s1 \in inferFromStylesheet(resource, st) } } }

RECURSIVE InferFromResources(_, _)
InferFromResources(resources, states) ==
  IF resources = <<>> THEN states
  ELSE InferFromResources(Tail(resources),
                          UNION { InferFromResource(resource, st) :
                                    resource \in { Head(resources) }, st \in states })

\* ApplyHeuristics: the lists it may return, one per order of the ranges over
\* the pattern maps
ApplyHeuristics(resources) ==
  { st.inferred : st \in InferFromResources(resources, { [inferred |-> <<>>, seen |-> {}] }) }

\* ConvertHeuristicToExternalResource
ConvertHeuristicToExternalResource(heuristic) ==
  LET url == IF /\ ~HasPrefix(heuristic.URL, <<"http", ":", "/", "/">>)
                /\ ~HasPrefix(heuristic.URL, <<"https", ":", "/", "/">>)
             THEN <<"https", ":", "/", "/">> \o heuristic.URL
             ELSE heuristic.URL
  IN  [URL |-> url, Type |-> heuristic.Type, Domain |-> ExtractDomain(url)]

(***************************************************************************)
(* the calls: one header in, one call, one header out                      *)
(***************************************************************************)

MaxSegments == 2
MaxHashes == 2
MaxResources == 2
MaxModifications == 2
MaxChangedFields == 2

\* the hash sources ComputeHash returns: the prefix of the algorithm, which the
\* validator looks for, and the encoded digest with the closing quote
HashA == <<"'sha256-", "A'">>
HashB == <<"'sha256-", "B'">>
HashC == <<"'sha256-", "C'">>
HashD == <<"'sha256-", "D'">>

\* the headers of at most n segments of segs, the segments separated by ";"
HeadersOf(segs, n) == { Join(p, <<";">>) : p \in SeqUpTo(segs, n) }

\* the segments of the headers given to the hash merges
HashSegments ==
  { <<"default-src", " ", "'self'">>,
    <<"script-src", " ", "'self'">>,
    <<" ", "script-src", "\t", "'unsafe-hashes'", " ", "'sha256-", "A'", " ">>,
    <<"script-src">>,
    <<"style-src", " ", "'self'">>,
    <<"style-src-attr", " ", "'unsafe-hashes'">>,
    <<"upgrade-insecure-requests">>,
    <<>> }

\* the catalog without resources
NoResources == CatalogOf(<<>>, EmptyMap)

NoCall ==
  [ op |-> "none", scriptHashes |-> <<>>, styleTagHashes |-> <<>>,
    styleAttrHashes |-> <<>>, hasEventHandlers |-> FALSE,
    resources |-> NoResources, modifications |-> <<>>, args |-> <<>>,
    resourceType |-> "", resourceList |-> <<>>, returned |-> <<>>,
    again |-> <<>>, template |-> ZeroTemplate, generateStrict |-> FALSE ]

InitHash ==
  /\ cspHeader \in HeadersOf(HashSegments, MaxSegments)
  /\ call = NoCall
  /\ updatedCSP = cspHeader

\* a call of UpdateCSP on the header
CallUpdateCSP ==
  /\ call.op = "none"
  /\ \E sh \in SeqUpTo({HashA, HashB}, MaxHashes),
        st \in SeqUpTo({HashC}, MaxHashes - 1),
        sa \in SeqUpTo({HashD}, MaxHashes - 1),
        ev \in BOOLEAN :
       /\ updatedCSP' \in UpdateCSP(cspHeader, sh, st, sa, ev)
       /\ call' = [ NoCall EXCEPT !.op = "UpdateCSP", !.scriptHashes = sh,
                    !.styleTagHashes = st, !.styleAttrHashes = sa,
                    !.hasEventHandlers = ev ]
  /\ UNCHANGED cspHeader

\* a call of MergeStrictCSPWithHashes on the header
CallMergeStrictCSPWithHashes ==
  /\ call.op = "none"
  /\ \E sh \in SeqUpTo({HashA, HashB}, MaxHashes),
        st \in SeqUpTo({HashC}, MaxHashes - 1),
        sa \in SeqUpTo({HashD}, MaxHashes - 1),
        ev \in BOOLEAN :
       /\ updatedCSP' \in MergeStrictCSPWithHashes(cspHeader, sh, st, sa, ev)
       /\ call' = [ NoCall EXCEPT !.op = "MergeStrictCSPWithHashes",
                    !.scriptHashes = sh, !.styleTagHashes = st,
                    !.styleAttrHashes = sa, !.hasEventHandlers = ev ]
  /\ UNCHANGED cspHeader

NextHash == CallUpdateCSP \/ CallMergeStrictCSPWithHashes

SpecHash == InitHash /\ [][NextHash]_vars

DomainA == <<"https://a.example">>
DomainB == <<"https://b.example">>

\* the resources a document may refer to; Domain is what ExtractDomain gives for
\* the URL, the empty string for a relative URL
ResourceUniverse ==
  { [Type |-> "script", URL |-> <<"https://b.example", "/app.js">>, Domain |-> DomainB],
    [Type |-> "script", URL |-> <<"https://a.example", "/lib.js">>, Domain |-> DomainA],
    [Type |-> "script", URL |-> <<"/local.js">>, Domain |-> <<>>],
    [Type |-> "stylesheet", URL |-> <<"https://a.example", "/site.css">>, Domain |-> DomainA],
    [Type |-> "image", URL |-> <<"https://a.example", "/logo.png">>, Domain |-> DomainA],
    [Type |-> "font", URL |-> <<"https://b.example", "/font.woff2">>, Domain |-> DomainB],
    [Type |-> "frame", URL |-> <<"https://a.example", "/embed">>, Domain |-> DomainA],
    [Type |-> "other", URL |-> <<"https://b.example", "/bg.bin">>, Domain |-> DomainB] }

\* the UsesDataURLs maps: no entry, image used, font used with image recorded
\* as unused
DataURLFlags ==
  { EmptyMap,
    [k \in {"image"} |-> TRUE],
    [k \in {"image", "font"} |-> k = "font"] }

\* the catalogs given to AddExternalResourcesToCSP
Catalogs ==
  { CatalogOf(found, flags) :
      found \in SeqUpTo(ResourceUniverse, MaxResources), flags \in DataURLFlags }

\* the segments of the headers given to the domain merge
ExternalSegments ==
  { <<"default-src", " ", "'self'", " ", "data:">>,
    <<"script-src", " ", "https://b.example", " ", "'self'", "\t", "'self'">>,
    <<"img-src", " ", "https://big", "data:", "8080">>,
    <<"img-src", " ", "'self'">>,
    <<"font-src">> }

InitExternal ==
  /\ cspHeader \in HeadersOf(ExternalSegments, MaxSegments)
  /\ call = NoCall
  /\ updatedCSP = cspHeader

\* a call of AddExternalResourcesToCSP on the header
CallAddExternalResourcesToCSP ==
  /\ call.op = "none"
  /\ \E er \in Catalogs :
       /\ updatedCSP' \in AddExternalResourcesToCSP(cspHeader, er)
       /\ call' = [ NoCall EXCEPT !.op = "AddExternalResourcesToCSP",
                    !.resources = er ]
  /\ UNCHANGED cspHeader

NextExternal == CallAddExternalResourcesToCSP

SpecExternal == InitExternal /\ [][NextExternal]_vars

\* the modifications the command line may ask for (src/main.go:70-97 gives each
\* flag its directive and action)
ModificationUniverse ==
  { [Action |-> "add", Directive |-> <<"script-src">>, Value |-> DomainA],
    [Action |-> "add", Directive |-> <<"script-src">>, Value |-> <<"'self'">>],
    [Action |-> "remove", Directive |-> <<"script-src">>, Value |-> <<"'self'">>],
    [Action |-> "remove", Directive |-> <<"script-src">>, Value |-> DomainA],
    [Action |-> "add", Directive |-> <<"img-src">>, Value |-> DomainA],
    [Action |-> "remove", Directive |-> <<"img-src">>, Value |-> <<"'self'">>] }

\* the flags of a command line: the flag registered for the directive and the
\* action (src/main.go:70-127), and its value
ArgUniverse ==
  { [flag |-> [directive |-> m.Directive, action |-> m.Action], value |-> m.Value] :
      m \in ModificationUniverse }

\* the segments of the headers given to ApplyCSPModifications
ModificationSegments ==
  { <<"default-src", " ", "'self'">>,
    <<"script-src", " ", "'self'">>,
    <<"script-src", " ", "'self'", " ", "https://a.example">>,
    <<"img-src", " ", "'self'">>,
    <<"upgrade-insecure-requests">> }

InitModifications ==
  /\ cspHeader \in HeadersOf(ModificationSegments, MaxSegments)
  /\ call = NoCall
  /\ updatedCSP = cspHeader

\* a call of ApplyCSPModifications on the header; main calls it for a list
\* that is not empty (src/main.go:427)
CallApplyCSPModifications ==
  /\ call.op = "none"
  /\ \E args \in SeqUpTo(ArgUniverse, MaxModifications) \ {<<>>} :
       LET mods == ParseFlags(<<>>, args)
       IN  /\ updatedCSP' \in ApplyCSPModifications(cspHeader, mods)
           /\ call' = [ NoCall EXCEPT !.op = "ApplyCSPModifications",
                        !.modifications = mods, !.args = args ]
  /\ UNCHANGED cspHeader

NextModifications == CallApplyCSPModifications

SpecModifications == InitModifications /\ [][NextModifications]_vars

\* the segments of the headers given to parseCSPDirectives and reconstructCSP
ParseSegments ==
  { <<"default-src", " ", "'self'">>,
    <<"script-src", "\t", " ", "'self'", " ", " ", "'sha256-", "A'">>,
    <<" ", "script-src", " ">>,
    <<"\n", "style-src", " ", "'self'", "\n">>,
    <<"frame-src", "\n", " ", "'none'">>,
    <<"img-src", "\n", "data:">>,
    <<"upgrade-insecure-requests">>,
    <<"report-uri", " ", "/r">>,
    <<" ">>,
    <<>> }

InitParse ==
  /\ cspHeader \in HeadersOf(ParseSegments, MaxSegments)
  /\ call = NoCall
  /\ updatedCSP = cspHeader

\* the header is parsed and rebuilt: reconstructCSP(parseCSPDirectives(cspHeader))
CallReconstructCSP ==
  /\ call.op = "none"
  /\ updatedCSP' \in reconstructCSP(parseCSPDirectives(cspHeader))
  /\ call' = [NoCall EXCEPT !.op = "reconstructCSP"]
  /\ UNCHANGED cspHeader

\* a call of parseCSPDirectives on the header
CallParseCSPDirectives ==
  /\ call.op = "none"
  /\ call' = [ NoCall EXCEPT !.op = "parseCSPDirectives",
               !.returned = parseCSPDirectives(cspHeader) ]
  /\ UNCHANGED <<cspHeader, updatedCSP>>

NextParse == CallReconstructCSP \/ CallParseCSPDirectives

SpecParse == InitParse /\ [][NextParse]_vars

\* the segments of the headers given to ValidateCSP
ValidateSegments ==
  { <<"default-src", " ", "'self'">>,
    <<"default-src", " ", "*">>,
    <<"script-src", " ", "'self'", " ", "'unsafe-inline'", " ", "'sha256-", "abc123'">>,
    <<"script-src", " ", "'unsafe-eval'", " ", "data:">>,
    <<"script-src", " ", "*", " ", "https://", "*", ".example.com">>,
    <<"style-src", " ", "'unsafe-inline'", " ", "'sha384-", "abc123'">>,
    <<"img-src", " ", "https://", "*", ".example.com">>,
    <<"img-src", " ", "*">>,
    <<"connect-src", " ", "'self'", " ", "*", ".example.com">>,
    <<"block-all-mixed-content">>,
    <<"referrer", " ", "no-referrer">>,
    <<"style-src-attr", " ", "'unsafe-hashes'">>,
    <<"script-src-attr", " ", "'none'">>,
    <<" ">> }

InitValidate ==
  /\ cspHeader \in HeadersOf(ValidateSegments, MaxSegments)
  /\ call = NoCall
  /\ updatedCSP = cspHeader

\* a call of ValidateCSP on the header (src/main.go, the --validate mode)
CallValidateCSP ==
  /\ call.op = "none"
  /\ \E result \in ValidateCSP(cspHeader) :
       call' = [ NoCall EXCEPT !.op = "ValidateCSP", !.returned = result ]
  /\ UNCHANGED <<cspHeader, updatedCSP>>

NextValidate == CallValidateCSP

SpecValidate == InitValidate /\ [][NextValidate]_vars

\* the URLs given to ExtractDomain: what stands before the authority, the
\* authority, and what follows it
URLPrefixes ==
  { <<>>, <<"https", ":", "/", "/">>, <<"http", ":", "/", "/">>, <<"/", "/">>,
    <<"data", ":">>, <<"ftp", ":", "/", "/">>, <<"/">>, <<"HTTPS", ":", "/", "/">> }

URLAuthorities ==
  { <<>>, <<"example.com">>, <<"example.com", ":", "8080">>,
    <<"example.com", ":", "x">>, <<"example.com", ":">>,
    <<"user", "@", "example.com">>, <<"user", ":", "pw", "@", "example.com", ":", "8080">>,
    <<"exa", " ", "mple.com">>, <<"%zz", "example.com">>, <<"image", "/", "png">>,
    <<"a", "@", "b", "@", "example.com">>, <<"us", " ", "er", "@", "example.com">> }

URLTails ==
  { <<>>, <<"/">>, <<"/", "path">>, <<"/", "path", "?", "q=1">>, <<"?", "q=1">>,
    <<"#", "frag">>, <<"/", "a", "/", "/", "b", "#", "frag">>, <<"/", "%zz">>,
    <<"\n">>, <<"#", "\n">>, <<"#", "%zz">>, <<"?", "a", "/", "b", "@", "c">> }

URLs == { p \o a \o t : p \in URLPrefixes, a \in URLAuthorities, t \in URLTails }

\* the URL is in cspHeader, the domain returned in call.returned
InitURL ==
  /\ cspHeader \in URLs
  /\ call = NoCall
  /\ updatedCSP = <<>>

\* a call of ExtractDomain on the URL of a resource (src/parser.go, the
\* collection of the external resources)
CallExtractDomain ==
  /\ call.op = "none"
  /\ call' = [ NoCall EXCEPT !.op = "ExtractDomain",
               !.returned = ExtractDomain(cspHeader) ]
  /\ UNCHANGED <<cspHeader, updatedCSP>>

NextURL == CallExtractDomain

SpecURL == InitURL /\ [][NextURL]_vars

\* the resource types GetDomainsByType is asked for, one of them unknown to it
ResourceTypes ==
  { "script", "stylesheet", "image", "font", "frame", "other", "media" }

\* the catalog is chosen with the call
InitDomains ==
  /\ cspHeader = <<>>
  /\ call = NoCall
  /\ updatedCSP = <<>>

\* a call of GetUniqueDomains on a catalog
CallGetUniqueDomains ==
  /\ call.op = "none"
  /\ \E found \in SeqUpTo(ResourceUniverse, MaxResources) :
       LET er == CatalogOf(found, EmptyMap)
       IN  call' = [ NoCall EXCEPT !.op = "GetUniqueDomains", !.resources = er,
                     !.returned = GetUniqueDomains(er) ]
  /\ UNCHANGED <<cspHeader, updatedCSP>>

\* a call of GetDomainsByType on a catalog
CallGetDomainsByType ==
  /\ call.op = "none"
  /\ \E found \in SeqUpTo(ResourceUniverse, MaxResources), resourceType \in ResourceTypes :
       LET er == CatalogOf(found, EmptyMap)
       IN  call' = [ NoCall EXCEPT !.op = "GetDomainsByType", !.resources = er,
                     !.resourceType = resourceType,
                     !.returned = GetDomainsByType(er, resourceType) ]
  /\ UNCHANGED <<cspHeader, updatedCSP>>

NextDomains == CallGetUniqueDomains \/ CallGetDomainsByType

SpecDomains == InitDomains /\ [][NextDomains]_vars

\* an ExternalResource as the collection of the resources builds it
Resource(type, url) == [Type |-> type, URL |-> url, Domain |-> ExtractDomain(url)]

\* the resources given to ApplyHeuristics
HeuristicResourceUniverse ==
  { Resource(found.Type, found.URL) : found \in
    { [Type |-> "stylesheet", URL |-> <<"https", ":", "/", "/", "font", "s.googleapis.com", "/",
                             "css", "?", "family=Roboto">>],
      [Type |-> "stylesheet", URL |-> <<"https", ":", "/", "/", "font", "s.googleapis.com", "/",
                             "css", "?", "family=Open+Sans">>],
      [Type |-> "stylesheet", URL |-> <<"https", ":", "/", "/", "font", "s.gstatic.com", "/",
                             "material", "-", "icons", ".css">>],
      [Type |-> "stylesheet", URL |-> <<"https", ":", "/", "/", "cdn.jsdelivr.net", "/", "npm", "/",
                             "Bootstrap", ".css">>],
      [Type |-> "script", URL |-> <<"https", ":", "/", "/", "www.", "google", "-", "analytics", ".com",
                         "/", "analytics", ".js">>],
      [Type |-> "script", URL |-> <<"https", ":", "/", "/", "js.", "stripe.com", "/", "v3">>],
      [Type |-> "script", URL |-> <<"https", ":", "/", "/", "js.", "braintree.com", "/", "web", "/",
                         "client", ".js">>],
      [Type |-> "script", URL |-> <<"https", ":", "/", "/", "stripe.com", ".", "paypal.com", "/",
                         "sdk", ".js">>],
      [Type |-> "script", URL |-> <<"/", "/", "connect.", "facebook", ".net", "/", "sdk", ".js">>],
      [Type |-> "script", URL |-> <<"/", "assets", "/", "react", ".", "polyfill", ".js">>],
      [Type |-> "image", URL |-> <<"https", ":", "/", "/", "res.", "cloudinary", ".com", "/",
                        "avatar", "@", "2x", ".png">>],
      [Type |-> "image", URL |-> <<"https", ":", "/", "/", "example", ".com", "/", "images", "/",
                        "photo", "-", "1920x", "1080.jpg">>],
      [Type |-> "font", URL |-> <<"https", ":", "/", "/", "api.", "example.com", "/", "v1", "/",
                       "font", ".woff2">>] } }

InitHeuristics ==
  /\ cspHeader = <<>>
  /\ call = NoCall
  /\ updatedCSP = <<>>

\* a call of ApplyHeuristics on the resources found (src/main.go:343)
CallApplyHeuristics ==
  /\ call.op = "none"
  /\ \E resources \in SeqUpTo(HeuristicResourceUniverse, MaxResources) :
       \E inferred \in ApplyHeuristics(resources) :
          call' = [ NoCall EXCEPT !.op = "ApplyHeuristics",
                    !.resourceList = resources, !.returned = inferred ]
  /\ UNCHANGED <<cspHeader, updatedCSP>>

\* the inferred resources are converted and put after the resources found
\* (src/main.go:346-362), and ApplyHeuristics is called on the whole
CallApplyHeuristicsAgain ==
  /\ call.op = "ApplyHeuristics"
  /\ \E converted \in { [i \in 1..Len(call.returned) |->
                              ConvertHeuristicToExternalResource(call.returned[i])] } :
       \E inferred \in ApplyHeuristics(call.resourceList \o converted) :
          call' = [ call EXCEPT !.op = "ApplyHeuristicsAgain", !.again = inferred ]
  /\ UNCHANGED <<cspHeader, updatedCSP>>

\* a second call of ApplyHeuristics on the same resources
CallApplyHeuristicsRepeated ==
  /\ call.op = "ApplyHeuristics"
  /\ \E inferred \in ApplyHeuristics(call.resourceList) :
       call' = [ call EXCEPT !.op = "ApplyHeuristicsRepeated", !.again = inferred ]
  /\ UNCHANGED <<cspHeader, updatedCSP>>

NextHeuristics ==
  CallApplyHeuristics \/ CallApplyHeuristicsAgain \/ CallApplyHeuristicsRepeated

SpecHeuristics == InitHeuristics /\ [][NextHeuristics]_vars

\* the resources handed to the heuristics: the lists of the catalog but Other,
\* one after the other (src/main.go:336-340)
FlatResources(er) ==
  er.Scripts \o er.Stylesheets \o er.Images \o er.Fonts \o er.Frames

\* the catalog with one converted inference appended to the list of its type
\* (the switch of src/main.go:348-361)
MergeHeuristic(er, type, externalRes) ==
  CASE type = "script" -> [er EXCEPT !.Scripts = Append(@, externalRes)]
    [] type = "stylesheet" -> [er EXCEPT !.Stylesheets = Append(@, externalRes)]
    [] type = "image" -> [er EXCEPT !.Images = Append(@, externalRes)]
    [] type = "font" -> [er EXCEPT !.Fonts = Append(@, externalRes)]
    [] type = "frame" -> [er EXCEPT !.Frames = Append(@, externalRes)]
    [] type = "connect" -> [er EXCEPT !.Other = Append(@, externalRes)]
    [] OTHER -> er

\* the loop of src/main.go:346-362 over the inferences
RECURSIVE MergeHeuristics(_, _)
MergeHeuristics(er, heuristics) ==
  IF heuristics = <<>> THEN er
  ELSE MergeHeuristics(
         CHOOSE merged \in { MergeHeuristic(er, Head(heuristics).Type, externalRes) :
                               externalRes \in
                                 { ConvertHeuristicToExternalResource(Head(heuristics)) } } :
           TRUE,
         Tail(heuristics))

\* the resources of a document that refers to files of its own origin only
RelativeResourceUniverse ==
  { Resource(found.Type, found.URL) : found \in
    { [Type |-> "script", URL |-> <<"/", "gtag", "/", "js">>],
      [Type |-> "script", URL |-> <<"/", "js", "/", "analytics", ".js">>],
      [Type |-> "script", URL |-> <<"/", "assets", "/", "react", ".", "polyfill", ".js">>],
      [Type |-> "stylesheet", URL |-> <<"/", "css", "/", "font", "s.css">>],
      [Type |-> "stylesheet", URL |-> <<"css", "/", "Bootstrap", ".css">>],
      [Type |-> "image", URL |-> <<"/", "img", "/", "avatar", "@", "2x", ".png">>],
      [Type |-> "font", URL |-> <<"/", "api", "/", "font", ".woff2">>] } }

\* the segments of the headers given to the merge of the inferred resources
RelativeSegments ==
  { <<"default-src", " ", "'self'">>,
    <<"script-src", " ", "'self'">>,
    <<"connect-src", " ", "https", ":", "/", "/", "google", "-", "analytics", ".com">>,
    <<"upgrade-insecure-requests">> }

\* the header main generates with --generate-strict and the flag
\* --require-trusted-types off (src/main.go:211-215)
StrictHeader == GenerateStrictCSP(GetDefaultStrictTemplate)

InitRelative ==
  /\ cspHeader \in HeadersOf(RelativeSegments, MaxSegments) \cup {StrictHeader}
  /\ call = NoCall
  /\ updatedCSP = cspHeader

\* main with --include-external and --heuristics, from the heuristics on: the
\* heuristics on the catalog and the inferences merged into it
\* (src/main.go:334-364), the script hashes without their repetitions
\* (src/main.go:367), the hashes merged into the header by
\* MergeStrictCSPWithHashes for a generated header and by UpdateCSP else
\* (src/main.go:408-415), and the domains of the catalog added to that header
\* (src/main.go:422-424).  AddExternalResourcesToCSP is written out as its
\* three steps: it parses the header it is given, adds the domains and
\* rebuilds the header
CallAddInferredResourcesToCSP ==
  /\ call.op = "none"
  /\ \E found \in SeqUpTo(RelativeResourceUniverse, MaxResources),
        allScriptHashes \in SeqUpTo({HashA}, MaxHashes),
        ev \in BOOLEAN,
        generateStrict \in { cspHeader = StrictHeader } \cup { FALSE } :
       \E er \in { CatalogOf(found, EmptyMap) } :
          \E heuristics \in ApplyHeuristics(FlatResources(er)) :
             \E merged \in { MergeHeuristics(er, heuristics) } :
                \E directives \in
                     { parseCSPDirectives(hashed) : hashed \in
                         (IF generateStrict
                          THEN MergeStrictCSPWithHashes(cspHeader,
                                 removeDuplicates(allScriptHashes), <<>>, <<>>, ev)
                          ELSE UpdateCSP(cspHeader,
                                 removeDuplicates(allScriptHashes), <<>>, <<>>, ev)) } :
                   /\ updatedCSP' \in reconstructCSP(ExternalDirectives(directives, merged))
                   /\ call' = [ NoCall EXCEPT !.op = "AddInferredResourcesToCSP",
                                !.resources = er, !.returned = heuristics,
                                !.scriptHashes = allScriptHashes,
                                !.hasEventHandlers = ev,
                                !.generateStrict = generateStrict ]
  /\ UNCHANGED cspHeader

NextRelative == CallAddInferredResourcesToCSP

SpecRelative == InitRelative /\ [][NextRelative]_vars

\* the values given to a list field of a template
FieldValues == { <<>>, << <<"'self'">> >>, << <<"'self'">>, <<"data:">> >> }

\* the templates given to GenerateStrictCSP: the default template and the zero
\* template with at most MaxChangedFields list fields set to other values,
\* with and without UpgradeInsecure and RequireTrustedTypesFor
Templates ==
  { [f \in DOMAIN base |->
       IF f = "UpgradeInsecure" THEN upgrade
       ELSE IF f = "RequireTrustedTypesFor" THEN trusted
       ELSE IF f \in DOMAIN changes THEN changes[f] ELSE base[f]] :
      base \in {GetDefaultStrictTemplate, ZeroTemplate},
      upgrade \in BOOLEAN,
      trusted \in BOOLEAN,
      changes \in UNION { [fs -> FieldValues] :
                            fs \in { x \in SUBSET { StrictFields[i].field :
                                                      i \in 1..Len(StrictFields) } :
                                       Cardinality(x) <= MaxChangedFields } } }

InitStrict ==
  /\ cspHeader = <<>>
  /\ call = NoCall
  /\ updatedCSP = <<>>

\* a call of GenerateStrictCSP on a template, as the tests make it
CallGenerateStrictCSP ==
  /\ call.op = "none"
  /\ \E template \in Templates :
       /\ updatedCSP' = GenerateStrictCSP(template)
       /\ call' = [ NoCall EXCEPT !.op = "GenerateStrictCSP", !.template = template ]
  /\ UNCHANGED cspHeader

\* main with --generate-strict (src/main.go:211-215): the default template,
\* its RequireTrustedTypesFor set from the flag --require-trusted-types
CallGenerateStrictFromFlags ==
  /\ call.op = "none"
  /\ \E requireTrustedTypes \in BOOLEAN :
       \E template \in { [GetDefaultStrictTemplate EXCEPT
                             !.RequireTrustedTypesFor = requireTrustedTypes] } :
          /\ updatedCSP' = GenerateStrictCSP(template)
          /\ call' = [ NoCall EXCEPT !.op = "generateStrict", !.template = template ]
  /\ UNCHANGED cspHeader

NextStrict == CallGenerateStrictCSP \/ CallGenerateStrictFromFlags

SpecStrict == InitStrict /\ [][NextStrict]_vars

\* the segments of the headers main updates with the hashes collected
CollectedSegments ==
  { <<"default-src", " ", "'self'">>,
    <<"script-src", " ", "'self'">>,
    <<"style-src", " ", "'self'">> }

InitCollected ==
  /\ cspHeader \in HeadersOf(CollectedSegments, MaxSegments)
  /\ call = NoCall
  /\ updatedCSP = cspHeader

\* a call of removeDuplicates on a list, and a call on what it returned
CallRemoveDuplicates ==
  /\ call.op = "none"
  /\ \E items \in SeqUpTo({HashA, HashB, HashC}, MaxHashes + 1) :
       call' = [ NoCall EXCEPT !.op = "removeDuplicates", !.scriptHashes = items,
                 !.returned = removeDuplicates(items),
                 !.again = removeDuplicates(removeDuplicates(items)) ]
  /\ UNCHANGED <<cspHeader, updatedCSP>>

\* main after the files are read: the three lists of hashes collected lose
\* their duplicates (src/main.go:367-369) and go to UpdateCSP (src/main.go:413)
CallUpdateCSPWithCollected ==
  /\ call.op = "none"
  /\ \E allScriptHashes \in SeqUpTo({HashA, HashB}, MaxHashes + 1),
        allStyleTagHashes \in SeqUpTo({HashC}, MaxHashes),
        allStyleAttrHashes \in SeqUpTo({HashD}, MaxHashes),
        ev \in BOOLEAN :
       /\ updatedCSP' \in UpdateCSP(cspHeader, removeDuplicates(allScriptHashes),
                                     removeDuplicates(allStyleTagHashes),
                                     removeDuplicates(allStyleAttrHashes), ev)
       /\ call' = [ NoCall EXCEPT !.op = "main", !.scriptHashes = allScriptHashes,
                    !.styleTagHashes = allStyleTagHashes,
                    !.styleAttrHashes = allStyleAttrHashes,
                    !.hasEventHandlers = ev ]
  /\ UNCHANGED cspHeader

NextCollected == CallRemoveDuplicates \/ CallUpdateCSPWithCollected

SpecCollected == InitCollected /\ [][NextCollected]_vars

(***************************************************************************)
(* the claims                                                              *)
(***************************************************************************)

\* the directives of the header given to the call and of the header returned
inDirectives == parseCSPDirectives(cspHeader)
outDirectives == parseCSPDirectives(updatedCSP)

\* the number of places where substr occurs in s
CountSub(s, substr) ==
  Cardinality({ i \in 1..(Len(s) - Len(substr) + 1) :
                  SubSeq(s, i, i + Len(substr) - 1) = substr })

\* the number of occurrences of x in the sequence s
CountIn(s, x) == Cardinality({ i \in 1..Len(s) : s[i] = x })

\* C1: rebuilding a parsed header and parsing it again gives the same
\* directives with the same values
C1_RoundTrip ==
  call.op = "reconstructCSP" => outDirectives = inDirectives

\* C1 witness: a header of two directives or more that the rebuild rewrote
C1_Witness ==
  /\ call.op = "reconstructCSP"
  /\ Cardinality(DOMAIN inDirectives) >= 2
  /\ \E n \in DOMAIN inDirectives : inDirectives[n] = <<>>
  /\ updatedCSP # cspHeader

\* C2: UpdateCSP with script hashes leaves in script-src the tokens it had,
\* then the hashes in the order given (then 'unsafe-hashes' when event handlers
\* ask for it and it is not there yet); script-src is created when the header
\* has none; every other directive keeps its value (style-src and
\* style-src-attr when no style hashes are given)
C2_ScriptHashesAppended ==
  (call.op = "UpdateCSP" /\ Len(call.scriptHashes) > 0) =>
    LET old == Fields(Get(inDirectives, <<"script-src">>))
        suffix == IF call.hasEventHandlers /\ UnsafeHashes \notin Range(old)
                  THEN <<UnsafeHashes>> ELSE <<>>
    IN  /\ Has(outDirectives, <<"script-src">>)
        /\ Fields(outDirectives[<<"script-src">>]) = old \o call.scriptHashes \o suffix
        /\ \A n \in (DOMAIN inDirectives) \ {<<"script-src">>} :
             (n \in {<<"style-src">>, <<"style-src-attr">>}
                => (call.styleTagHashes = <<>> /\ call.styleAttrHashes = <<>>))
             => (Has(outDirectives, n) /\ outDirectives[n] = inDirectives[n])

\* C2 witness: two different hashes put into a header that has default-src and
\* no script-src
C2_Witness ==
  /\ call.op = "UpdateCSP"
  /\ Len(call.scriptHashes) = 2
  /\ call.scriptHashes[1] # call.scriptHashes[2]
  /\ Has(inDirectives, <<"default-src">>)
  /\ ~Has(inDirectives, <<"script-src">>)
  /\ outDirectives[<<"script-src">>] = Join(call.scriptHashes, <<" ">>)

\* C3 (as claimed): whenever UpdateCSP is called with hasEventHandlers, the
\* script-src of the result has the token 'unsafe-hashes', whatever the hash
\* list, and no more often than before when it was already there
C3_UnsafeHashesWhenEventHandlers ==
  (call.op = "UpdateCSP" /\ call.hasEventHandlers) =>
    /\ Has(outDirectives, <<"script-src">>)
    /\ UnsafeHashes \in Range(Fields(outDirectives[<<"script-src">>]))
    /\ (UnsafeHashes \in Range(Fields(Get(inDirectives, <<"script-src">>)))
          => CountIn(Fields(outDirectives[<<"script-src">>]), UnsafeHashes)
               = CountIn(Fields(inDirectives[<<"script-src">>]), UnsafeHashes))

\* C4: style-attribute hashes go to style-src-attr when the header has it and
\* to style-src otherwise, after the tokens already there (and after the
\* style-tag hashes in style-src); that directive then holds 'unsafe-hashes'
\* once if it held it at most once; style-tag hashes go to style-src
C4_StyleAttrHashes ==
  call.op = "UpdateCSP" =>
    LET target == IF Has(inDirectives, <<"style-src-attr">>)
                  THEN <<"style-src-attr">> ELSE <<"style-src">>
        old == Fields(Get(inDirectives, target))
        tags == IF target = <<"style-src">> THEN call.styleTagHashes ELSE <<>>
        suffix == IF UnsafeHashes \in Range(old) THEN <<>> ELSE <<UnsafeHashes>>
    IN  /\ call.styleAttrHashes # <<>> =>
             /\ Has(outDirectives, target)
             /\ Fields(outDirectives[target]) = old \o tags \o call.styleAttrHashes \o suffix
             /\ CountSub(Get(inDirectives, target), UnsafeHashes) <= 1
                  => CountSub(outDirectives[target], UnsafeHashes) = 1
        /\ call.styleTagHashes # <<>> =>
             /\ Has(outDirectives, <<"style-src">>)
             /\ LET new == Fields(outDirectives[<<"style-src">>])
                    want == Fields(Get(inDirectives, <<"style-src">>)) \o call.styleTagHashes
                IN  /\ Len(new) >= Len(want)
                    /\ SubSeq(new, 1, Len(want)) = want
                    /\ (target = <<"style-src-attr">> \/ call.styleAttrHashes = <<>>)
                         => new = want

\* C4 witness: style-attribute and style-tag hashes given for a header that has
\* both style-src and a style-src-attr already holding 'unsafe-hashes'
C4_Witness ==
  /\ call.op = "UpdateCSP"
  /\ call.styleAttrHashes # <<>>
  /\ call.styleTagHashes # <<>>
  /\ Has(inDirectives, <<"style-src-attr">>)
  /\ Has(inDirectives, <<"style-src">>)
  /\ CountSub(inDirectives[<<"style-src-attr">>], UnsafeHashes) = 1
  /\ HashD \in Range(Fields(outDirectives[<<"style-src-attr">>]))

\* the hash tokens of the model
HashTokens == {HashA, HashB, HashC, HashD}

\* C5 (as claimed): a hash merge returns for lists with repeated hashes what it
\* returns for the lists without the repeats, and no directive of the result
\* holds the same hash token twice
C5_HashMergeIdempotentUnderDuplication ==
  call.op \in {"UpdateCSP", "MergeStrictCSPWithHashes"} =>
    LET sh == removeDuplicates(call.scriptHashes)
        st == removeDuplicates(call.styleTagHashes)
        sa == removeDuplicates(call.styleAttrHashes)
        deduplicated ==
          IF call.op = "UpdateCSP"
          THEN UpdateCSP(cspHeader, sh, st, sa, call.hasEventHandlers)
          ELSE MergeStrictCSPWithHashes(cspHeader, sh, st, sa, call.hasEventHandlers)
    IN  /\ \A r \in deduplicated : parseCSPDirectives(r) = outDirectives
        /\ \A n \in DOMAIN outDirectives : \A h \in HashTokens :
             CountIn(Fields(outDirectives[n]), h) <= 1

\* C6: MergeStrictCSPWithHashes with nothing to add returns the directives of
\* its input, and no call of it returns a directive with an empty value that
\* the input did not have
C6_NoFabricatedDirectives ==
  call.op = "MergeStrictCSPWithHashes" =>
    /\ ( /\ call.scriptHashes = <<>>
         /\ call.styleTagHashes = <<>>
         /\ call.styleAttrHashes = <<>>
         /\ ~call.hasEventHandlers ) => outDirectives = inDirectives
    /\ \A n \in DOMAIN outDirectives :
         outDirectives[n] = <<>> => (Has(inDirectives, n) /\ inDirectives[n] = <<>>)

\* C6 witness: the call with nothing to add, on a header that has directives
\* but neither script-src nor style-src
C6_Witness ==
  /\ call.op = "MergeStrictCSPWithHashes"
  /\ call.scriptHashes = <<>>
  /\ call.styleTagHashes = <<>>
  /\ call.styleAttrHashes = <<>>
  /\ ~call.hasEventHandlers
  /\ DOMAIN inDirectives # {}
  /\ ~Has(inDirectives, <<"script-src">>)
  /\ ~Has(inDirectives, <<"style-src">>)
  /\ ~Has(outDirectives, <<"script-src">>)

\* the resource types and the directive each one feeds
TypeDirective ==
  { <<"script", <<"script-src">>>>, <<"stylesheet", <<"style-src">>>>,
    <<"image", <<"img-src">>>>, <<"font", <<"font-src">>>>,
    <<"frame", <<"frame-src">>>>, <<"other", <<"connect-src">>>> }

\* the class of data: URLs that feeds a directive, "" for none
DataKey(name) ==
  IF name = <<"img-src">> THEN "image" ELSE IF name = <<"font-src">> THEN "font" ELSE ""

\* the tokens a directive starts from in the domain merge: its own, else those of
\* default-src, else none
SeedTokens(directives, name) ==
  IF Has(directives, name) THEN Fields(directives[name])
  ELSE Fields(Get(directives, <<"default-src">>))

\* C7: for each resource type with a domain, the directive becomes its existing
\* tokens (those of default-src when it is absent and default-src exists, none
\* otherwise) followed by the new domains in ascending order, each token once;
\* for img-src and font-src the data: token that the same call adds stands
\* between the two
C7_DomainsMerged ==
  call.op = "AddExternalResourcesToCSP" =>
    \A td \in TypeDirective :
      LET name == td[2]
          domains == GetDomainsByType(call.resources, td[1])
          seed == SeedTokens(inDirectives, name)
          data == IF /\ DataKey(name) # ""
                     /\ UsesDataURLs(call.resources, DataKey(name))
                     /\ ~(Has(inDirectives, name) /\ Contains(inDirectives[name], DataScheme))
                  THEN <<DataScheme>> ELSE <<>>
      IN  domains # <<>> =>
            /\ Has(outDirectives, name)
            /\ Fields(outDirectives[name]) = removeDuplicates(seed \o data \o domains)
            /\ \A t \in Range(Fields(outDirectives[name])) :
                 CountIn(Fields(outDirectives[name]), t) = 1

\* C7 witness: two script domains, found in descending order, merged into a
\* header that has default-src and no script-src
C7_Witness ==
  /\ call.op = "AddExternalResourcesToCSP"
  /\ Len(call.resources.Scripts) = 2
  /\ call.resources.Scripts[1].Domain = DomainB
  /\ call.resources.Scripts[2].Domain = DomainA
  /\ Has(inDirectives, <<"default-src">>)
  /\ ~Has(inDirectives, <<"script-src">>)
  /\ Fields(outDirectives[<<"script-src">>])
       = Fields(inDirectives[<<"default-src">>]) \o <<DomainA, DomainB>>

\* C8 (as claimed): with UsesDataURLs["image"] (resp. "font") set, the img-src
\* (resp. font-src) of the result has the token data:, and the tokens of
\* default-src when the directive was absent; with the flag unset or missing the
\* call puts no data: token into the directive
C8_DataSchemeAdded ==
  call.op = "AddExternalResourcesToCSP" =>
    \A name \in {<<"img-src">>, <<"font-src">>} :
      IF UsesDataURLs(call.resources, DataKey(name))
      THEN /\ Has(outDirectives, name)
           /\ DataScheme \in Range(Fields(outDirectives[name]))
           /\ ~Has(inDirectives, name) =>
                Range(Fields(Get(inDirectives, <<"default-src">>)))
                  \subseteq Range(Fields(outDirectives[name]))
      ELSE (Has(outDirectives, name) /\ DataScheme \in Range(Fields(outDirectives[name])))
             => DataScheme \in Range(SeedTokens(inDirectives, name))

\* the catalog with each resource once, the lists in an order that does not
\* depend on the order in which the resources were found
EachOnce(list) == CHOOSE p \in IterationOrders(Range(list)) : TRUE

Deduplicated(er) ==
  [ Scripts      |-> EachOnce(er.Scripts),
    Stylesheets  |-> EachOnce(er.Stylesheets),
    Images       |-> EachOnce(er.Images),
    Fonts        |-> EachOnce(er.Fonts),
    Frames       |-> EachOnce(er.Frames),
    Other        |-> EachOnce(er.Other),
    UsesDataURLs |-> er.UsesDataURLs ]

\* C9: AddExternalResourcesToCSP returns the same directives for a catalog as
\* for the catalog with each resource once in a fixed order, and a second call
\* with the same catalog on its result changes no directive
C9_DomainMergeIdempotent ==
  call.op = "AddExternalResourcesToCSP" =>
    /\ \A r \in AddExternalResourcesToCSP(cspHeader, Deduplicated(call.resources)) :
         parseCSPDirectives(r) = outDirectives
    /\ \A r \in AddExternalResourcesToCSP(updatedCSP, call.resources) :
         parseCSPDirectives(r) = outDirectives

\* C9 witness: a catalog that holds the same script twice, merged with a data:
\* flag into a header that the call changes
C9_Witness ==
  /\ call.op = "AddExternalResourcesToCSP"
  /\ Len(call.resources.Scripts) = 2
  /\ call.resources.Scripts[1] = call.resources.Scripts[2]
  /\ call.resources.Scripts[1].Domain = DomainB
  /\ UsesDataURLs(call.resources, "image")
  /\ DomainB \in Range(Fields(outDirectives[<<"script-src">>]))
  /\ outDirectives # inDirectives

\* C10: when the last modification removes the only token a directive has at
\* that point, the header returned has no directive of that name, and every
\* other directive is there with the value it had
C10_RemoveLastTokenDeletesDirective ==
  call.op = "ApplyCSPModifications" =>
    LET n == Len(call.modifications)
        mod == call.modifications[n]
        before == ModifiedDirectives(inDirectives, SubSeq(call.modifications, 1, n - 1))
    IN  ( /\ mod.Action = "remove"
          /\ Has(before, mod.Directive)
          /\ Fields(before[mod.Directive]) = <<mod.Value>> )
        => /\ ~Has(outDirectives, mod.Directive)
           /\ \A d \in (DOMAIN before) \ {mod.Directive} :
                Has(outDirectives, d) /\ outDirectives[d] = before[d]

\* C10 witness: 'self', the only token of script-src, is removed from a header
\* that has another directive
C10_Witness ==
  /\ call.op = "ApplyCSPModifications"
  /\ call.modifications =
       << [Action |-> "remove", Directive |-> <<"script-src">>, Value |-> <<"'self'">>] >>
  /\ Has(inDirectives, <<"script-src">>)
  /\ inDirectives[<<"script-src">>] = <<"'self'">>
  /\ Cardinality(DOMAIN inDirectives) = 2
  /\ Cardinality(DOMAIN outDirectives) = 1

\* C11: in ApplyCSPModifications an add of a token the directive has, and a
\* remove of a token the directive does not have, leave the directive map as
\* it is; the same modification twice in a row gives what it gives once
C11_NoOpModifications ==
  call.op = "ApplyCSPModifications" =>
    LET n == Len(call.modifications)
        mod == call.modifications[n]
        before == ModifiedDirectives(inDirectives, SubSeq(call.modifications, 1, n - 1))
        present == /\ Has(before, mod.Directive)
                   /\ mod.Value \in Range(Fields(before[mod.Directive]))
    IN  /\ (mod.Action = "add" /\ present) => outDirectives = before
        /\ (mod.Action = "remove" /\ ~present) => outDirectives = before
        /\ (n = 2 /\ call.modifications[1] = mod)
             => outDirectives = ModifiedDirectives(inDirectives, <<mod>>)

\* C11 witness: the same add twice, of a token that script-src does not have at
\* first: the token is there once
C11_Witness ==
  /\ call.op = "ApplyCSPModifications"
  /\ call.modifications =
       << [Action |-> "add", Directive |-> <<"script-src">>, Value |-> DomainA],
          [Action |-> "add", Directive |-> <<"script-src">>, Value |-> DomainA] >>
  /\ Has(inDirectives, <<"script-src">>)
  /\ inDirectives[<<"script-src">>] = <<"'self'">>
  /\ outDirectives[<<"script-src">>] = <<"'self'", " ">> \o DomainA

\* the last modification of the list on the token of the directive, 0 if none
LastOn(modifications, directive, value) ==
  LET on == { i \in 1..Len(modifications) :
                /\ modifications[i].Directive = directive
                /\ modifications[i].Value = value }
  IN  IF on = {} THEN 0 ELSE CHOOSE i \in on : \A j \in on : j <= i

\* C12: the list of modifications is the flags of the command line in their
\* order, and it is applied in that order: a token is in its directive at the
\* end if the last modification on it is an add, and not if it is a remove;
\* a directive that no modification names is left as it was
C12_ModificationsInOrder ==
  call.op = "ApplyCSPModifications" =>
    /\ Len(call.modifications) = Len(call.args)
    /\ \A i \in 1..Len(call.args) :
         call.modifications[i] =
           [Action |-> call.args[i].flag.action,
            Directive |-> call.args[i].flag.directive,
            Value |-> call.args[i].value]
    /\ \A m \in Range(call.modifications) :
         LET last == call.modifications[LastOn(call.modifications, m.Directive, m.Value)]
             there == /\ Has(outDirectives, m.Directive)
                      /\ m.Value \in Range(Fields(outDirectives[m.Directive]))
         IN  (last.Action = "add") <=> there
    /\ \A d \in (DOMAIN inDirectives \cup DOMAIN outDirectives) :
         (\A m \in Range(call.modifications) : m.Directive # d)
           => /\ Has(inDirectives, d) /\ Has(outDirectives, d)
              /\ outDirectives[d] = inDirectives[d]

\* C12 witness: a token that script-src does not have is added and then
\* removed, next to a directive no modification names: the header is unchanged
C12_Witness ==
  /\ call.op = "ApplyCSPModifications"
  /\ call.modifications =
       << [Action |-> "add", Directive |-> <<"script-src">>, Value |-> DomainA],
          [Action |-> "remove", Directive |-> <<"script-src">>, Value |-> DomainA] >>
  /\ Has(inDirectives, <<"script-src">>)
  /\ inDirectives[<<"script-src">>] = <<"'self'">>
  /\ Has(inDirectives, <<"default-src">>)
  /\ outDirectives = inDirectives

\* C13: ValidateCSP says valid=false exactly for the empty header, then with
\* one warning, of severity error; for any other header it says valid=true and
\* gives no warning of severity error
C13_InvalidOnlyWhenEmpty ==
  call.op = "ValidateCSP" =>
    LET result == call.returned
    IN  /\ (result.Valid = FALSE) <=> (cspHeader = <<>>)
        /\ cspHeader = <<>> =>
             /\ Len(result.Warnings) = 1
             /\ result.Warnings[1].Severity = "error"
        /\ cspHeader # <<>> =>
             \A i \in 1..Len(result.Warnings) : result.Warnings[i].Severity # "error"

\* C13 witness: a header of blanks only, without any directive, was validated
\* and found valid
C13_Witness ==
  /\ call.op = "ValidateCSP"
  /\ cspHeader # <<>>
  /\ inDirectives = EmptyMap
  /\ call.returned.Valid

\* the sequences s and t hold the same elements, each as many times
SameBag(s, t) ==
  /\ Len(s) = Len(t)
  /\ \A x \in Range(s) \cup Range(t) :
       Cardinality({ i \in 1..Len(s) : s[i] = x })
         = Cardinality({ i \in 1..Len(t) : t[i] = x })

\* C14: for a header that is not empty the warnings returned are those of the
\* six checks, each run alone on the directives, all together; script-src with
\* 'unsafe-inline' and a hash, alone in the header, gets exactly the warning of
\* 'unsafe-inline' with hashes and the warning of the missing default-src
C14_ChecksAccumulate ==
  (call.op = "ValidateCSP" /\ cspHeader # <<>>) =>
    LET warnings == call.returned.Warnings
    IN  /\ \E a \in checkUnsafeInlineWithHashes(inDirectives),
              b \in checkUnsafeEval(inDirectives),
              c \in checkMissingDefaultSrc(inDirectives),
              d \in checkOverlyPermissive(inDirectives),
              e \in checkDeprecatedDirectives(inDirectives),
              f \in checkConflictingDirectives(inDirectives) :
              SameBag(warnings, a \o b \o c \o d \o e \o f)
        /\ cspHeader = <<"script-src", " ", "'self'", " ", "'unsafe-inline'", " ",
                         "'sha256-", "abc123'">>
             => /\ Len(warnings) = 2
                /\ warnings[1].Message =
                     <<"script-src", " contains both 'unsafe-inline' and hash values">>
                /\ warnings[2].Message = <<"Missing 'default-src' directive">>

\* C14 witness: a header for which three of the checks have a finding, four
\* warnings in all
C14_Witness ==
  /\ call.op = "ValidateCSP"
  /\ cspHeader = <<"script-src", " ", "'unsafe-eval'", " ", "data:", ";",
                   "block-all-mixed-content">>
  /\ Len(call.returned.Warnings) = 4

\* the value has a "*" that is not the "*" of "https://*"
HasBareWildcard(value) ==
  \E i \in 1..Len(value) :
     value[i] = "*" /\ ~(i > 1 /\ value[i - 1] = "https://")

\* C15: for default-src, script-src, style-src, img-src and connect-src,
\* ValidateCSP gives the wildcard warning of the directive when its value has
\* a bare "*", whatever else the value lists, and does not give it when every
\* "*" of the value is part of "https://*"
C15_WildcardWarning ==
  call.op = "ValidateCSP" =>
    \A d \in permissiveDirectivesToCheck :
       Has(inDirectives, d) =>
         (HasBareWildcard(inDirectives[d])
            <=> WildcardWarning(d) \in Range(call.returned.Warnings))

\* what is left of a URL after the first n lexemes
From(str, n) == SubSeq(str, n + 1, Len(str))

\* the URL up to the first of the delimiters, all of it if it has none
UpTo(str, delimiters) ==
  IF \E i \in 1..Len(str) : str[i] \in delimiters
  THEN SubSeq(str, 1, (CHOOSE i \in 1..Len(str) :
                         str[i] \in delimiters
                         /\ \A j \in 1..(i - 1) : str[j] \notin delimiters) - 1)
  ELSE str

\* C16: ExtractDomain returns the empty string, or scheme://host[:port] with
\* the host of the URL and no path, query or fragment; it returns the empty
\* string for a data: URL, for a URL that starts with none of http://,
\* https:// and //, and for a URL that does not parse or has no host; a URL
\* //host/... gives https://host
C16_ExtractDomain ==
  call.op = "ExtractDomain" =>
    LET rawURL == cspHeader
        domain == call.returned
        relative == /\ ~HasPrefix(rawURL, <<"http", ":", "/", "/">>)
                    /\ ~HasPrefix(rawURL, <<"https", ":", "/", "/">>)
                    /\ ~HasPrefix(rawURL, <<"/", "/">>)
        absolute == IF HasPrefix(rawURL, <<"/", "/">>)
                    THEN <<"https", ":">> \o rawURL ELSE rawURL
        authority == UpTo(From(absolute, 4), {"/", "?", "#"})
        host == From(authority, LastIndex(authority, "@") + 1)
    IN  /\ HasPrefix(rawURL, <<"data", ":">>) => domain = <<>>
        /\ relative => domain = <<>>
        /\ (~relative /\ (urlParse(absolute).err \/ host = <<>>)) => domain = <<>>
        /\ domain # <<>> =>
             /\ domain = <<absolute[1], ":", "/", "/">> \o host
             /\ absolute[1] \in {"http", "https"}
             /\ host # <<>>
             /\ \A i \in 1..Len(host) : host[i] \notin {"/", "?", "#", "@"}
             /\ \/ Len(host) = 1
                \/ Len(host) = 2 /\ host[2] = ":"
                \/ Len(host) = 3 /\ host[2] = ":" /\ host[3] \in DigitRuns
        /\ (HasPrefix(rawURL, <<"/", "/">>) /\ domain # <<>>)
             => HasPrefix(domain, <<"https", ":", "/", "/">>)
        /\ (~relative /\ ~urlParse(absolute).err /\ host # <<>>) => domain # <<>>

\* C16 witness: a protocol-relative URL with user information, a port, a path
\* and a fragment gave https://example.com:8080
C16_Witness ==
  /\ call.op = "ExtractDomain"
  /\ cspHeader = <<"/", "/", "user", ":", "pw", "@", "example.com", ":", "8080",
                   "/", "a", "/", "/", "b", "#", "frag">>
  /\ call.returned = <<"https", ":", "/", "/", "example.com", ":", "8080">>

\* the list is strictly ascending
StrictlyAscending(list) ==
  \A i, j \in 1..Len(list) : i < j => StringLess(list[i], list[j])

\* the Domain values of the resources that are not empty
DomainsOf(resources) ==
  { resources[i].Domain : i \in 1..Len(resources) } \ {<<>>}

\* C17: GetUniqueDomains and GetDomainsByType return a strictly ascending
\* list that holds exactly the non-empty Domain values of the resources of the
\* six lists, resp. of the list of the type, in whatever order and however
\* often the catalog holds them; GetDomainsByType returns the empty list for
\* a type it does not know
C17_DomainListsSortedUnique ==
  /\ call.op = "GetUniqueDomains" =>
       /\ StrictlyAscending(call.returned)
       /\ Range(call.returned) =
            DomainsOf(call.resources.Scripts) \cup DomainsOf(call.resources.Stylesheets)
              \cup DomainsOf(call.resources.Images) \cup DomainsOf(call.resources.Fonts)
              \cup DomainsOf(call.resources.Frames) \cup DomainsOf(call.resources.Other)
  /\ call.op = "GetDomainsByType" =>
       /\ StrictlyAscending(call.returned)
       /\ call.resourceType = "script" =>
            Range(call.returned) = DomainsOf(call.resources.Scripts)
       /\ call.resourceType = "stylesheet" =>
            Range(call.returned) = DomainsOf(call.resources.Stylesheets)
       /\ call.resourceType = "image" =>
            Range(call.returned) = DomainsOf(call.resources.Images)
       /\ call.resourceType = "font" =>
            Range(call.returned) = DomainsOf(call.resources.Fonts)
       /\ call.resourceType = "frame" =>
            Range(call.returned) = DomainsOf(call.resources.Frames)
       /\ call.resourceType = "other" =>
            Range(call.returned) = DomainsOf(call.resources.Other)
       /\ call.resourceType = "media" => call.returned = <<>>

\* C17 witness: the catalog holds a script of b.example before a script of
\* a.example, and GetUniqueDomains returned a.example before b.example
C17_Witness ==
  /\ call.op = "GetUniqueDomains"
  /\ Len(call.resources.Scripts) = 2
  /\ call.resources.Scripts[1].Domain = DomainB
  /\ call.resources.Scripts[2].Domain = DomainA
  /\ call.returned = <<DomainA, DomainB>>

\* the resource is a stylesheet on fonts.googleapis.com
OnGoogleFonts(resource) ==
  /\ resource.Type = "stylesheet"
  /\ Contains(ExtractDomain(resource.URL), <<"font", "s.googleapis.com">>)

\* C18: in the list ApplyHeuristics returns no fact of a rule is there twice,
\* and for a list with a stylesheet on fonts.googleapis.com there is exactly
\* one entry with the URL https://fonts.gstatic.com, and its source is the
\* first such stylesheet
C18_InferredOncePerRule ==
  call.op = "ApplyHeuristics" =>
    LET inferred == call.returned
        resources == call.resourceList
        google == { i \in 1..Len(resources) : OnGoogleFonts(resources[i]) }
        gstatic == { i \in 1..Len(inferred) : inferred[i].URL = GstaticDomain }
    IN  /\ \A i, j \in 1..Len(inferred) :
             ( /\ inferred[i].URL = inferred[j].URL
               /\ inferred[i].Type = inferred[j].Type
               /\ inferred[i].Confidence = inferred[j].Confidence
               /\ inferred[i].Reason = inferred[j].Reason ) => i = j
        /\ google # {} =>
             /\ Cardinality(gstatic) = 1
             /\ \A i \in gstatic :
                  inferred[i].SourceURL =
                    resources[CHOOSE g \in google : \A h \in google : g <= h].URL

\* C19: no two entries of the list ApplyHeuristics returns have the same URL
\* and the same Type
C19_InferredDeduplicated ==
  call.op = "ApplyHeuristics" =>
    \A i, j \in 1..Len(call.returned) :
       ( /\ call.returned[i].URL = call.returned[j].URL
         /\ call.returned[i].Type = call.returned[j].Type ) => i = j

\* C20: ApplyHeuristics on the resources followed by what it inferred from
\* them, converted to resources, infers no URL and Type that it did not infer
\* from the resources alone
C20_HeuristicsIdempotent ==
  call.op = "ApplyHeuristicsAgain" =>
    \A i \in 1..Len(call.again) :
       \E j \in 1..Len(call.returned) :
          /\ call.returned[j].URL = call.again[i].URL
          /\ call.returned[j].Type = call.again[i].Type

\* the processors, and the domain each is mapped to
Processors == { <<"stripe.com">>, <<"paypal.com">>, <<"square.com">>, <<"braintree.com">> }

ProcessorDomain(p) == IF p = <<"braintree.com">> THEN <<"braintreegateway.com">> ELSE p

\* the processors whose name the domain of the resource contains
ProcessorsOf(resource) ==
  { p \in Processors : Contains(ExtractDomain(resource.URL), p) }

\* the resource is a script on the domain of a payment processor
IsPaymentScript(resource) ==
  resource.Type = "script" /\ ProcessorsOf(resource) # {}

\* the list has the entry for the mapped domain with the type and the source,
\* of confidence high
HasPaymentEntry(inferred, domain, type, url) ==
  \E k \in 1..Len(inferred) :
     /\ inferred[k].URL = domain
     /\ inferred[k].Type = type
     /\ inferred[k].Confidence = "high"
     /\ inferred[k].SourceURL = url
     /\ inferred[k].SourceType = "script"

\* C21: for a script whose domain contains the name of a payment processor,
\* no earlier resource of the list being a script of a processor with the same
\* mapped domain, ApplyHeuristics returns for one processor the domain
\* contains a connect entry and a frame entry for the mapped domain of that
\* processor (braintreegateway.com for braintree.com), both of confidence high
\* and both with the URL of the script as SourceURL
C21_PaymentConnectAndFrame ==
  call.op = "ApplyHeuristics" =>
    \A i \in 1..Len(call.resourceList) :
       LET resource == call.resourceList[i]
           mapped == { ProcessorDomain(p) : p \in ProcessorsOf(resource) }
           earlier == \E j \in 1..(i - 1) :
                         /\ IsPaymentScript(call.resourceList[j])
                         /\ \E p \in ProcessorsOf(call.resourceList[j]) :
                               ProcessorDomain(p) \in mapped
       IN  (IsPaymentScript(resource) /\ ~earlier) =>
             \E domain \in mapped :
                /\ HasPaymentEntry(call.returned, domain, "connect", resource.URL)
                /\ HasPaymentEntry(call.returned, domain, "frame", resource.URL)

\* a script on js.braintree.com, after a script of another processor, gave the
\* two entries for braintreegateway.com
C21_Witness ==
  /\ call.op = "ApplyHeuristics"
  /\ Len(call.resourceList) = 2
  /\ ProcessorsOf(call.resourceList[1]) = { <<"stripe.com">> }
  /\ ProcessorsOf(call.resourceList[2]) = { <<"braintree.com">> }
  /\ IsPaymentScript(call.resourceList[2])
  /\ HasPaymentEntry(call.returned, <<"braintreegateway.com">>, "connect",
                     call.resourceList[2].URL)
  /\ HasPaymentEntry(call.returned, <<"braintreegateway.com">>, "frame",
                     call.resourceList[2].URL)

\* the first lexeme of the Reason of the entries of each family of rules
StylesheetReasons ==
  { "Stylesheet name contains 'font' keyword",
    "Google Fonts CSS always loads from fonts.gstatic.com",
    "Icon font library detected (",
    "CSS framework may include custom fonts (",
    "CDN may dynamically load additional resources" }

ScriptReasons ==
  { "Analytics/tracking script needs to send data",
    "JavaScript framework may lazy-load additional chunks",
    "Payment processor needs API connection",
    "Payment processor may use iframes",
    "Social media widget needs API access",
    "Polyfill service may serve different files based on user agent" }

ImageReasons ==
  { "CDN domain likely serves multiple images",
    "Responsive image pattern detected, likely has multiple variants",
    "User-generated content pattern detected" }

\* the entry names the resource as its source
SourceIs(h, resource) ==
  h.SourceURL = resource.URL /\ h.SourceType = resource.Type

\* the entries can be given to the resources from the i-th on, each entry to
\* a resource it names as its source, the resources in the order of the list
RECURSIVE GroupedFrom(_, _, _)
GroupedFrom(inferred, resources, i) ==
  IF inferred = <<>> THEN TRUE
  ELSE LET later == { j \in i..Len(resources) : SourceIs(Head(inferred), resources[j]) }
       IN  /\ later # {}
           /\ GroupedFrom(Tail(inferred), resources,
                          CHOOSE j \in later : \A k \in later : j <= k)

\* C22: every entry ApplyHeuristics returns has the URL and the Type of a
\* resource of the input as SourceURL and SourceType, the entries of the
\* stylesheet, script and image rules have a source of that type, and the
\* entries are grouped by their source in the order of the input
C22_SourceRecorded ==
  call.op = "ApplyHeuristics" =>
    /\ GroupedFrom(call.returned, call.resourceList, 1)
    /\ \A k \in 1..Len(call.returned) :
          LET h == call.returned[k]
          IN  /\ Head(h.Reason) \in StylesheetReasons => h.SourceType = "stylesheet"
              /\ Head(h.Reason) \in ScriptReasons => h.SourceType = "script"
              /\ Head(h.Reason) \in ImageReasons => h.SourceType = "image"

\* a font on an API domain and then a script gave entries of both, the first
\* of the type-agnostic rule with the source type font
C22_Witness ==
  /\ call.op = "ApplyHeuristics"
  /\ Len(call.resourceList) = 2
  /\ call.resourceList[1].Type = "font"
  /\ call.resourceList[2].Type = "script"
  /\ Len(call.returned) >= 3
  /\ call.returned[1].SourceType = "font"
  /\ Head(call.returned[1].Reason) = "API endpoint detected"
  /\ call.returned[1].SourceURL = call.resourceList[1].URL
  /\ \A k \in 2..Len(call.returned) :
        /\ call.returned[k].SourceURL = call.resourceList[2].URL
        /\ Head(call.returned[k].Reason) \in ScriptReasons

\* C28: two calls of ApplyHeuristics on the same list of resources return the
\* same list, entry by entry
C28_HeuristicsDeterministic ==
  call.op = "ApplyHeuristicsRepeated" => call.again = call.returned

\* the canonical list of the directives
CanonicalList ==
  << <<"default-src">>, <<"script-src">>, <<"style-src">>, <<"img-src">>,
     <<"font-src">>, <<"connect-src">>, <<"frame-src">>, <<"frame-ancestors">>,
     <<"object-src">>, <<"base-uri">>, <<"form-action">> >>

IsCanonical(name) == \E k \in 1..Len(CanonicalList) : CanonicalList[k] = name

CanonicalRank(name) == CHOOSE k \in 1..Len(CanonicalList) : CanonicalList[k] = name

\* the parts of a header joined by "; ", without the space after the ";"
PartsOf(header) ==
  LET parts == Split(header, ";")
  IN  [i \in 1..Len(parts) |-> IF i = 1 THEN parts[i] ELSE Tail(parts[i])]

\* the name a rendered part starts with
NameOf(part) ==
  IF IndexAny(part, {" "}) = -1 THEN part ELSE SubSeq(part, 1, IndexAny(part, {" "}))

\* C23: the header reconstructCSP returns for a directive map is empty for
\* the empty map and else has one part per directive, the parts joined by
\* "; ", a part being the bare name of a directive with an empty value and
\* the name, one space and the value else; the directives of the canonical
\* list come first, in the order of the list, the other directives after them
C23_CanonicalOrder ==
  call.op = "reconstructCSP" =>
    LET directives == inDirectives
        raw == Split(updatedCSP, ";")
        parts == PartsOf(updatedCSP)
        names == [i \in 1..Len(parts) |-> NameOf(parts[i])]
    IN  IF DOMAIN directives = {} THEN updatedCSP = <<>>
        ELSE /\ Len(parts) = Cardinality(DOMAIN directives)
             /\ \A i \in 2..Len(raw) : raw[i] # <<>> /\ Head(raw[i]) = " "
             /\ \A i \in 1..Len(parts) :
                   /\ names[i] \in DOMAIN directives
                   /\ parts[i] = IF directives[names[i]] = <<>> THEN names[i]
                                 ELSE names[i] \o <<" ">> \o directives[names[i]]
             /\ \A i, j \in 1..Len(parts) : names[i] = names[j] => i = j
             /\ \A i, j \in 1..Len(parts) :
                   (i < j /\ IsCanonical(names[j])) =>
                      /\ IsCanonical(names[i])
                      /\ CanonicalRank(names[i]) < CanonicalRank(names[j])

\* a header with a bare directive outside the canonical list before a
\* directive of the list was rebuilt with the canonical directive first
C23_Witness ==
  /\ call.op = "reconstructCSP"
  /\ cspHeader = <<"upgrade-insecure-requests", ";", "default-src", " ", "'self'">>
  /\ updatedCSP = <<"default-src", " ", "'self'", ";", " ", "upgrade-insecure-requests">>

\* the names of the directives of a header as written, in the order written,
\* the empty segments left out
InputNames(header) ==
  LET trimmed == SelectSeq([i \in 1..Len(Split(header, ";")) |->
                              TrimSpace(Split(header, ";")[i])],
                           LAMBDA part : part # <<>>)
  IN  [i \in 1..Len(trimmed) |->
         IF IndexAny(trimmed[i], {" ", "\t"}) = -1 THEN trimmed[i]
         ELSE SubSeq(trimmed[i], 1, IndexAny(trimmed[i], {" ", "\t"}))]

\* the first position of x in the list
FirstPosition(list, x) ==
  CHOOSE i \in 1..Len(list) : list[i] = x /\ \A j \in 1..(i - 1) : list[j] # x

\* C24: the directives of the header given to UpdateCSP are in the header it
\* returns in the relative order they have in the header given
C24_DirectiveOrderPreserved ==
  call.op = "UpdateCSP" =>
    LET given == InputNames(cspHeader)
        parts == PartsOf(updatedCSP)
        returned == [i \in 1..Len(parts) |-> NameOf(parts[i])]
    IN  \A a, b \in Range(given) :
           FirstPosition(given, a) < FirstPosition(given, b) =>
             /\ a \in Range(returned)
             /\ b \in Range(returned)
             /\ FirstPosition(returned, a) < FirstPosition(returned, b)

\* the segments of a header that are not empty after trimming, trimmed
Segments(header) ==
  SelectSeq([i \in 1..Len(Split(header, ";")) |-> TrimSpace(Split(header, ";")[i])],
            LAMBDA part : part # <<>>)

\* the value a trimmed segment gives: the trimmed text after the first space
\* or tab, the empty string when it has none
ValueOf(segment) ==
  IF IndexAny(segment, {" ", "\t"}) = -1 THEN <<>>
  ELSE TrimSpace(SubSeq(segment, IndexAny(segment, {" ", "\t"}) + 2, Len(segment)))

\* C25: parseCSPDirectives returns a map for every header; its keys are the
\* names of the segments that are not empty or white space only, a name being
\* the text of the trimmed segment before its first space or tab, and the
\* value of a key is the trimmed remainder of the last segment with that name,
\* the empty string for a bare directive
C25_ParseDirectives ==
  call.op = "parseCSPDirectives" =>
    LET segments == Segments(cspHeader)
        names == InputNames(cspHeader)
        directives == call.returned
    IN  /\ DOMAIN directives = Range(names)
        /\ \A k \in 1..Len(segments) :
              (\A j \in (k + 1)..Len(segments) : names[j] # names[k]) =>
                 directives[names[k]] = ValueOf(segments[k])

\* a header that names script-src twice, with white space around the names,
\* was parsed to the bare script-src of its last segment
C25_Witness ==
  /\ call.op = "parseCSPDirectives"
  /\ cspHeader = <<"script-src", "\t", " ", "'self'", " ", " ", "'sha256-", "A'", ";",
                   " ", "script-src", " ">>
  /\ DOMAIN call.returned = { <<"script-src">> }
  /\ call.returned[<<"script-src">>] = <<>>

\* the directive of each list field of the template
DirectiveOfField ==
  [ DefaultSrc |-> <<"default-src">>, ScriptSrc |-> <<"script-src">>,
    StyleSrc |-> <<"style-src">>, ImgSrc |-> <<"img-src">>,
    FontSrc |-> <<"font-src">>, ConnectSrc |-> <<"connect-src">>,
    ManifestSrc |-> <<"manifest-src">>, WorkerSrc |-> <<"worker-src">>,
    FrameSrc |-> <<"frame-src">>, ObjectSrc |-> <<"object-src">>,
    MediaSrc |-> <<"media-src">>, BaseURI |-> <<"base-uri">>,
    FormAction |-> <<"form-action">>, FrameAncestors |-> <<"frame-ancestors">> ]

\* the directives the default template is to give
DefaultStrictDirectives ==
  [ name \in { DirectiveOfField[f] : f \in DOMAIN DirectiveOfField }
              \cup { <<"upgrade-insecure-requests">> } |->
      IF name \in { <<"default-src">>, <<"frame-src">>, <<"object-src">>,
                    <<"frame-ancestors">> } THEN <<"'none'">>
      ELSE IF name = <<"upgrade-insecure-requests">> THEN <<>>
      ELSE <<"'self'">> ]

\* C26: the header GenerateStrictCSP returns has one part per list field of
\* the template that is not empty, none for an empty one, the bare
\* upgrade-insecure-requests when the template asks for it and
\* require-trusted-types-for 'script' when the template asks for that; the
\* directive of a field has the tokens of the field as its value; and for the
\* default template the header parses to default-src, frame-src, object-src
\* and frame-ancestors 'none', the ten other source directives 'self', and
\* upgrade-insecure-requests
C26_GenerateStrictCSP ==
  call.op \in {"GenerateStrictCSP", "generateStrict"} =>
    \A template \in { call.template }, directives \in { outDirectives } :
       \A used \in { { f \in DOMAIN DirectiveOfField : template[f] # <<>> } } :
          /\ Len(PartsOf(updatedCSP)) =
                IF used = {} /\ ~template.UpgradeInsecure /\ ~template.RequireTrustedTypesFor
                THEN 1
                ELSE Cardinality(used) + (IF template.UpgradeInsecure THEN 1 ELSE 0)
                       + (IF template.RequireTrustedTypesFor THEN 1 ELSE 0)
          /\ (used = {} /\ ~template.UpgradeInsecure /\ ~template.RequireTrustedTypesFor)
                => updatedCSP = <<>>
          /\ DOMAIN directives =
                { DirectiveOfField[f] : f \in used }
                  \cup (IF template.UpgradeInsecure
                        THEN { <<"upgrade-insecure-requests">> } ELSE {})
                  \cup (IF template.RequireTrustedTypesFor
                        THEN { <<"require-trusted-types-for">> } ELSE {})
          /\ \A f \in used : directives[DirectiveOfField[f]] = Join(template[f], <<" ">>)
          /\ template.UpgradeInsecure => directives[<<"upgrade-insecure-requests">>] = <<>>
          /\ template.RequireTrustedTypesFor =>
                directives[<<"require-trusted-types-for">>] = <<"'script'">>
          /\ template = GetDefaultStrictTemplate => directives = DefaultStrictDirectives

\* the default template gave its fifteen directives
C26_Witness ==
  /\ call.op = "generateStrict"
  /\ call.template = GetDefaultStrictTemplate
  /\ Len(PartsOf(updatedCSP)) = 15
  /\ outDirectives = DefaultStrictDirectives

\* a template with empty fields gave a header without their directives
C26_WitnessEmptyFields ==
  /\ call.op = "GenerateStrictCSP"
  /\ call.template.ScriptSrc = <<>>
  /\ call.template.ImgSrc = << <<"'self'">>, <<"data:">> >>
  /\ ~call.template.UpgradeInsecure
  /\ updatedCSP = <<"img-src", " ", "'self'", " ", "data:">>

\* the elements of the list at their first occurrence
RECURSIVE FirstOccurrences(_)
FirstOccurrences(list) ==
  IF list = <<>> THEN <<>>
  ELSE <<Head(list)>>
         \o FirstOccurrences(SelectSeq(Tail(list), LAMBDA x : x # Head(list)))

\* C27: removeDuplicates returns the strings of its input, each once, in the
\* order of their first occurrence in the input, and returns its own output
\* unchanged; and the header main prints is the one UpdateCSP returns for the
\* three lists collected, each without its repeated hashes
C27_DuplicatesRemoved ==
  /\ call.op = "removeDuplicates" =>
       LET items == call.scriptHashes
           result == call.returned
       IN  /\ Range(result) = Range(items)
           /\ \A i, j \in 1..Len(result) : result[i] = result[j] => i = j
           /\ \A i, j \in 1..Len(result) :
                 i < j => FirstPosition(items, result[i]) < FirstPosition(items, result[j])
           /\ call.again = result
  /\ call.op = "main" =>
       updatedCSP \in UpdateCSP(cspHeader, FirstOccurrences(call.scriptHashes),
                                FirstOccurrences(call.styleTagHashes),
                                FirstOccurrences(call.styleAttrHashes),
                                call.hasEventHandlers)

\* a list with a hash repeated after another hash lost the repetition
C27_Witness ==
  /\ call.op = "removeDuplicates"
  /\ call.scriptHashes = <<HashB, HashA, HashB>>
  /\ call.returned = <<HashB, HashA>>
  /\ call.again = <<HashB, HashA>>

\* C29: the header MergeStrictCSPWithHashes returns has the directives of a
\* header UpdateCSP returns for the same header, the same three lists of
\* hashes and the same hasEventHandlers
C29_StrictMergeAsPlainMerge ==
  call.op = "MergeStrictCSPWithHashes" =>
    \E plain \in UpdateCSP(cspHeader, call.scriptHashes, call.styleTagHashes,
                            call.styleAttrHashes, call.hasEventHandlers) :
       parseCSPDirectives(plain) = outDirectives

\* the headers main hands to AddExternalResourcesToCSP: the header given with
\* the script hashes merged in
HashedHeaders ==
  IF call.generateStrict
  THEN MergeStrictCSPWithHashes(cspHeader, FirstOccurrences(call.scriptHashes),
                                <<>>, <<>>, call.hasEventHandlers)
  ELSE UpdateCSP(cspHeader, FirstOccurrences(call.scriptHashes),
                 <<>>, <<>>, call.hasEventHandlers)

\* C30: for a catalog whose resources all have an empty Domain, the header
\* after the heuristics, the merge of the inferences into the catalog and
\* AddExternalResourcesToCSP has the directives of the header that
\* AddExternalResourcesToCSP was given
C30_RelativeAddsNoOrigin ==
  ( /\ call.op = "AddInferredResourcesToCSP"
    /\ \A i \in 1..Len(AllResources(call.resources)) :
          AllResources(call.resources)[i].Domain = <<>> )
    => \E hashed \in HashedHeaders : outDirectives = parseCSPDirectives(hashed)

====
